---- MODULE Spec2Model ----
(***************************************************************************)
(* AGBNP3 energy/derivative pipeline (libagbnp3.c, agbnp3_utils.c).        *)
(*                                                                         *)
(* The model follows the OpenMP build (_OPENMP defined) with ATIMER off    *)
(* (libagbnp3.c:8 is commented out), so the barriers guarded by            *)
(* #ifdef ATIMER do not exist.                                             *)
(*                                                                         *)
(* Floating point quantities are carried as integers: pi is 3, and the     *)
(* switching functions return their value times Scale.                     *)
(*                                                                         *)
(* Specifications                                                          *)
(*   Spec    the parallel region of agbnp3_total_energy called through     *)
(*           agbnp3_ener, one thread of control per OpenMP worker          *)
(*   SpecNL  one worker's pass through agbnp3_neighbor_lists, statement    *)
(*           by statement, over all small atom configurations              *)
(***************************************************************************)
EXTENDS Integers, Sequences, FiniteSets, TLC

\* ------------------------------------------------------------------ bounds
NWorkers == 2
MaxEvals == 2
MaxAtoms == 3
MaxCoord == 2
MaxAllocFail == 2
MaxWsAtoms == 2
MaxBonds == 3
MaxWsCalls == 2
MaxNeigh == 3
AGBNP_MAX_OVERLAP_LEVEL == 4
MaxTypes == 3
MaxRadius == 4
MaxNodes == 3
MaxX == 4
MaxBatch == 2
TabDx == 2
MaxSlots == 2
MaxCalls == 5
MaxReorder == 4
MaxCapCalls == 3
MaxRows == 3
MaxTeardowns == 2

\* ------------------------------------------------------- program constants
AGBNP_OK == 0
AGBNP_ERR == -1
AGBNP_NBOFFSET == 1
AGBNP_NEARNEIGHBORS == 2
AGBNP_RADIUS_INCREMENT == 1
nsym == 1
pi == 3
tokcalmol == 332
min_incr == 20
nkey == 10000
AGBNP_HB_LENGTH == 250

\* Reals are carried as integers times Scale
Scale == 100

Workers == 0 .. (NWorkers - 1)
\* agb->r, in units of AGBNP_RADIUS_INCREMENT
Radii == {2, 3}

Max(a, b) == IF a > b THEN a ELSE b

\* agbnp3_mymax(int a, int b); the caller passes 1.2*neighl_size, which the
\* int parameter truncates
agbnp3_mymax(a, b) == IF a > b THEN a ELSE b

nlsize_increment(size) == (12 * size) \div 10

\* ------------------------------------------------------------ configuration
\* conf = [natoms, nheavyat, x, r]: internal atom indices 0..natoms-1, the
\* heavy atoms first (agbnp3_atom_reorder), coordinates on a line.
AtomsOf(c) == 0 .. (c.natoms - 1)
HeavyOf(c) == 0 .. (c.nheavyat - 1)

\* The hydrogen-bonding classes of agb->hbtype
AGBNP_HB_INACTIVE == "AGBNP_HB_INACTIVE"
AGBNP_HB_POLARH == "AGBNP_HB_POLARH"
AGBNP_HB_TRIGONAL == "AGBNP_HB_TRIGONAL"
AGBNP_HB_TRIGONAL_S == "AGBNP_HB_TRIGONAL_S"
AGBNP_HB_TRIGONAL_OOP == "AGBNP_HB_TRIGONAL_OOP"
AGBNP_HB_TETRAHEDRAL == "AGBNP_HB_TETRAHEDRAL"

HbTypes ==
  {AGBNP_HB_INACTIVE, AGBNP_HB_POLARH, AGBNP_HB_TRIGONAL, AGBNP_HB_TRIGONAL_S,
   AGBNP_HB_TRIGONAL_OOP, AGBNP_HB_TETRAHEDRAL}

\* What the water-site constructors look at in the connection table of an
\* atom: its class, conntbl->nne[iat], whether one of its neighbours is heavy,
\* conntbl->nne[ir] of its first neighbour ir, and whether the entries of ir
\* name the substituents the constructor looks for. Fields that the class
\* and count of the atom never lead the code to read are held fixed.
WsTopos ==
  { t \in [hbtype : HbTypes, nne : 0 .. MaxBonds, heavy : BOOLEAN,
           rnne : {3, 4}, rparse : BOOLEAN] :
      /\ (t.hbtype # AGBNP_HB_POLARH \/ t.nne = 0) => t.heavy
      /\ ~(t.hbtype \in {AGBNP_HB_TRIGONAL, AGBNP_HB_TRIGONAL_S,
                          AGBNP_HB_TETRAHEDRAL} /\ t.nne = 1)
            => (t.rnne = 3 /\ t.rparse)
      /\ t.hbtype = AGBNP_HB_INACTIVE => t.nne = 1 }

Topo(ty, n) == [hbtype |-> ty, nne |-> n, heavy |-> TRUE, rnne |-> 3,
                rparse |-> TRUE]

HbActive(c) == {i \in AtomsOf(c) : c.topo[i].hbtype # AGBNP_HB_INACTIVE}

Configs ==
  UNION { { [natoms |-> n, nheavyat |-> h, x |-> xs, r |-> rs] :
              h \in 1 .. n, xs \in [0 .. (n - 1) -> {2 * k : k \in 0 .. MaxCoord}],
              rs \in [0 .. (n - 1) -> Radii] } : n \in 1 .. MaxAtoms }

\* The structure of the pipeline runs: two heavy atoms that overlap and a
\* hydrogen
MainConf ==
  [natoms |-> 3, nheavyat |-> 2,
   x |-> [i \in 0 .. 2 |-> 2 * i],
   r |-> [i \in 0 .. 2 |-> 2],
   topo |-> [i \in 0 .. 2 |->
               IF i = 0 THEN Topo(AGBNP_HB_TRIGONAL, 2)
               ELSE IF i = 1 THEN Topo(AGBNP_HB_TETRAHEDRAL, 3)
               ELSE Topo(AGBNP_HB_INACTIVE, 1)]]

\* The structures of the water-site runs: every topology on a few atoms
WsConfigs ==
  UNION { { [natoms |-> n, nheavyat |-> n,
             x |-> [i \in 0 .. (n - 1) |-> 2 * i],
             r |-> [i \in 0 .. (n - 1) |-> 2],
             topo |-> tp] : tp \in [0 .. (n - 1) -> WsTopos] }
          : n \in 1 .. MaxWsAtoms }

VARIABLES
  conf,     \* the atoms of the structure
  team,     \* number of workers of the team
  nlw,      \* SpecNL: the worker whose pass is followed
  nl,       \* per worker: near_nl, far_nl, q4cache storage, pass state
  pc,       \* per worker: index of its next instruction in Prog
  atbar,    \* per worker: waiting at the barrier of instruction pc
  res,      \* per worker: the private res of agbnp3_total_energy
  claimed,  \* single constructs already taken in this parallel region
  error,    \* the shared error counter of agbnp3_total_energy
  spent,    \* workers whose arrival at the end of the region completed a
            \* barrier that teammates were waiting at
  hung,     \* the team can never be joined
  phase,    \* "idle": in the caller; "par": inside the parallel region
  neval,    \* evaluations started
  ret,      \* return value of the last agbnp3_ener
  out,      \* the caller's output arguments
  pre,      \* the caller's output arguments when the call was made
  first,    \* the outputs of the first evaluation that returned AGBNP_OK
  m,        \* agb and agb->agbw: the master copies
  h,        \* per worker: agb->agbw_p[iproc]
  sh,       \* shared locals of agbnp3_total_energy: i, iat, egb_self, egb_pair
  ws,       \* per worker: water site list of agbw_p[iproc]
  g,        \* history: who added, who read
  fr        \* the library function followed on its own: arguments, locals

\* ---------------------------------------------------------- neighbor lists
D2(c, i, j) == (c.x[j] - c.x[i]) * (c.x[j] - c.x[i])

\* the distance test with the boundary included
IsNear_inclusive(c, i, j) ==
  LET u == (c.r[i] + c.r[j]) * AGBNP_NBOFFSET IN D2(c, i, j) <= u * u

\* libagbnp3.c:5278-5280: u = (r[iat]+r[jat])*nboffset; d2 < u*u
IsNear(c, i, j) ==
  LET u == (c.r[i] + c.r[j]) * AGBNP_NBOFFSET IN D2(c, i, j) < u * u

NullPtr == [blk |-> 0, off |-> 0]

\* a comparison that breaks ties by the larger index first
fcompare_ties_reversed(val, i1, i2) ==
  IF val[i1] < val[i2] THEN -1
  ELSE IF val[i1] > val[i2] THEN 1
  ELSE IF i1 > i2 THEN -1
  ELSE IF i1 < i2 THEN 1
  ELSE 0

\* agbnp3_fcompare: by value, then by index
fcompare(val, i1, i2) ==
  IF val[i1] < val[i2] THEN -1
  ELSE IF val[i1] > val[i2] THEN 1
  ELSE IF i1 < i2 THEN -1
  ELSE IF i1 > i2 THEN 1
  ELSE 0

\* agbnp3_fsortindx: indx[0..n-1] sorted by agbnp3_fcompare (qsort under a
\* strict total order has one result): indx[k] is the index with exactly k
\* indices before it.
fsortindx(n, val) ==
  [k \in 0 .. (n - 1) |->
     CHOOSE i \in 0 .. (n - 1) :
       Cardinality({j \in 0 .. (n - 1) : fcompare(val, j, i) < 0}) = k]

\* The near neighbors of iat in the order the jat loop stores them
RECURSIVE NearScan(_, _, _)
NearScan(c, iat, jat) ==
  IF jat >= c.nheavyat THEN << >>
  ELSE IF IsNear(c, iat, jat) THEN << jat >> \o NearScan(c, iat, jat + 1)
  ELSE NearScan(c, iat, jat + 1)

\* State of one worker's neighbor-list data (AGBworkdata near_nl, far_nl,
\* q4cache) after agbnp3_allocate_agbworkdata
NLInit(c) ==
  [pc |-> "idle", iat |-> 0, nnl |-> 0, nnlrc |-> 0, error |-> 0, nlsize |-> 0,
   size |-> c.natoms * AGBNP_NEARNEIGHBORS, blk |-> 1,
   neighl1 |-> [k \in 0 .. (c.natoms * AGBNP_NEARNEIGHBORS - 1) |-> -1],
   nne |-> [i \in AtomsOf(c) |-> 0],
   neighl |-> [i \in AtomsOf(c) |-> NullPtr],
   far_nne |-> [i \in AtomsOf(c) |-> 0],
   q4blk |-> 0, nq4cache |-> 0,
   res |-> AGBNP_OK, nfailed |-> 0, retried |-> FALSE, nrealloc |-> 0]

\* libagbnp3.c:5252-5260: reset of the counters and entry into the
\* omp for schedule(static,1): worker w of t takes iat = w, w+t, ...
NLEnter(c, s, w) ==
  [s EXCEPT !.pc = "for", !.iat = w, !.nnl = 0, !.nnlrc = 0, !.error = 0,
            !.nlsize = 0,
            !.nne = [i \in AtomsOf(c) |-> 0],
            !.far_nne = [i \in AtomsOf(c) |-> 0],
            !.res = AGBNP_OK, !.nfailed = 0, !.retried = FALSE]

\* libagbnp3.c:5260-5261: loop test and "if(error) continue"
NLFor(c, s, t) ==
  IF s.iat >= c.nheavyat THEN [s EXCEPT !.pc = "post"]
  ELSE IF s.error # 0 THEN [s EXCEPT !.iat = s.iat + t]
  ELSE [s EXCEPT !.pc = "while"]

NLNeedsGrowth(c, s) == s.nnl + nsym * c.natoms >= s.size

\* libagbnp3.c:5262-5268: one turn of the while loop. The "continue" of line
\* 5267 continues the while loop, so after a failed reallocation the test of
\* line 5262 is made again.
NLWhile(c, s, ok, moved) ==
  IF NLNeedsGrowth(c, s)
  THEN LET nlsize == agbnp3_mymax(nlsize_increment(s.size),
                                  s.nnl + nsym * c.natoms)
       IN IF ok
          THEN [s EXCEPT !.nlsize = nlsize, !.size = nlsize,
                         !.blk = IF moved THEN s.blk + 1 ELSE s.blk,
                         !.neighl1 = [k \in 0 .. (nlsize - 1) |->
                                        IF k < s.size THEN s.neighl1[k] ELSE -1],
                         !.retried = (s.nfailed > 0) \/ s.retried,
                         !.nrealloc = s.nrealloc + 1]
          ELSE [s EXCEPT !.nlsize = nlsize, !.error = 2,
                         !.nfailed = s.nfailed + 1,
                         !.retried = (s.nfailed > 0) \/ s.retried]
  ELSE [s EXCEPT !.pc = "build"]

\* libagbnp3.c:5270-5299: the list of atom iat, sorted by squared distance
NLBuild(c, s, t) ==
  LET iat == s.iat
      found == NearScan(c, iat, iat + 1)
      n == Len(found)
      val == [k \in 0 .. (n - 1) |-> D2(c, iat, found[k + 1])]
      indx == fsortindx(n, val)
      nfar == (c.nheavyat - 1 - iat) - n
  IN [s EXCEPT !.pc = "for",
               !.iat = iat + t,
               !.nne = [s.nne EXCEPT ![iat] = n],
               !.neighl = [s.neighl EXCEPT ![iat] = [blk |-> s.blk, off |-> s.nnl]],
               !.neighl1 = [k \in DOMAIN s.neighl1 |->
                              IF k >= s.nnl /\ k < s.nnl + n
                              THEN found[indx[k - s.nnl] + 1]
                              ELSE s.neighl1[k]],
               !.nnl = s.nnl + n,
               !.nnlrc = s.nnlrc + nfar + (c.natoms - c.nheavyat + 1)]

NLNeedsQ4(s) == s.q4blk = 0 \/ 4 * (s.nnl + s.nnlrc) > s.nq4cache

\* libagbnp3.c:5304-5346: error report, (re)allocation of the i4() cache
NLPost(s, ok, moved) ==
  IF s.error # 0 THEN [s EXCEPT !.pc = "done", !.res = AGBNP_ERR]
  ELSE IF NLNeedsQ4(s)
  THEN IF ok
       THEN [s EXCEPT !.pc = "done", !.res = AGBNP_OK,
                      !.nq4cache = 4 * (s.nnl + s.nnlrc),
                      !.q4blk = IF moved \/ s.q4blk = 0 THEN s.q4blk + 1 ELSE s.q4blk]
       ELSE [s EXCEPT !.pc = "done", !.res = AGBNP_ERR,
                      !.nq4cache = 4 * (s.nnl + s.nnlrc), !.q4blk = 0]
  ELSE [s EXCEPT !.pc = "done", !.res = AGBNP_OK]

\* One statement of agbnp3_neighbor_lists; ok and moved are the outcome of
\* the allocation the statement makes, if it makes one.
NLStep(c, s, w, t, ok, moved) ==
  CASE s.pc = "idle" -> NLEnter(c, s, w)
    [] s.pc = "for" -> NLFor(c, s, t)
    [] s.pc = "while" -> NLWhile(c, s, ok, moved)
    [] s.pc = "build" -> NLBuild(c, s, t)
    [] s.pc = "post" -> NLPost(s, ok, moved)
    [] OTHER -> s

NLAllocates(c, s) ==
  \/ s.pc = "while" /\ NLNeedsGrowth(c, s)
  \/ s.pc = "post" /\ s.error = 0 /\ NLNeedsQ4(s)

\* ------------------------------------------------- the parallel region
\* agbnp3_total_energy, libagbnp3.c:1870-2311, as the sequence of constructs
\* each worker goes through. kind:
\*   local     statements on the worker's own data (agbw_h, private locals)
\*   critical  the body of an omp critical
\*   single    an omp single whose body runs while no other worker touches
\*             what it touches; nowait as in the source
\*   sbegin    entry of an omp single whose body is followed statement by
\*             statement (kind sbody); workers that do not take it go to "to"
\*   barrier   an omp barrier, or the implicit barrier that ends a construct
\*   check     "if(res != AGBNP_OK) error += 1; flush; if(error) goto ERROR"
\*   nl, wsalloc, wsloop   calls whose allocations can fail
I(name, kind, nowait, to) ==
  [name |-> name, kind |-> kind, nowait |-> nowait, to |-> to]

\* the same constructs left out, or without their synchronisation
no_barrier == "local"
no_critical == "local"
with_nowait == TRUE

\* omp constructs whose placement the claims are about
sf_barrier_497 == "barrier"
sf_barrier_543 == "barrier"
br_barrier_581 == "barrier"
br_barrier_598 == "barrier"
rd_derh_nowait == FALSE
red_dgbdr_construct == "critical"

\* The stage functions whose bodies are not in the sources
\* (agbnp3_self_volumes_rooti, agbnp3_gb_ders_constvp_nolist_ps,
\* agbnp3_ws_free_volumes_scalev_ps, agbnp3_gb_deruv_nolist_ps,
\* agbnp3_der_vp_rooti, agbnp3_cavity_dersgb_rooti) follow the specification:
\* work on the worker's own data, shared accumulation in a critical, and the
\* stage boundary barrier at their end (sv_barrier, gd_barrier, hb_barrier,
\* uv_barrier, vp_barrier, cav_barrier). None of them fails.
Prog ==
  << \* agbnp3_reset_buffers                          agbnp3_utils.c:411-459
     I("rb_memset", "local", FALSE, ""),
     I("rb_volumep", "single", TRUE, ""),
     I("rb_surf_area", "single", TRUE, ""),
     I("rb_mvpji", "single", TRUE, ""),
     I("rb_br1", "single", TRUE, ""),
     I("rb_ehb", "single", FALSE, ""),
     I("chk_rb", "check", FALSE, ""),
     \* agbnp3_reset_derivatives                     agbnp3_utils.c:613-651
     I("rd_memset", "local", FALSE, ""),
     I("rd_dgbdr_h", "single", TRUE, ""),
     I("rd_dvwdr_h", "single", TRUE, ""),
     I("rd_decav_h", "single", TRUE, ""),
     I("rd_dehb", "single", TRUE, ""),
     I("rd_dera", "single", TRUE, ""),
     I("rd_deru", "single", TRUE, ""),
     I("rd_derv", "single", TRUE, ""),
     I("rd_derus", "single", TRUE, ""),
     I("rd_dervs", "single", TRUE, ""),
     I("rd_derh", "single", rd_derh_nowait, ""),
     I("chk_rd", "check", FALSE, ""),
     \* agbnp3_neighbor_lists                        libagbnp3.c:1923-1930
     I("neighbor_lists", "nl", FALSE, ""),
     I("chk_nl", "check", FALSE, ""),
     \* agbnp3_self_volumes_rooti                    libagbnp3.c:1950-1957
     I("self_volumes", "local", FALSE, ""),
     I("sv_barrier", "barrier", FALSE, ""),
     I("chk_sv", "check", FALSE, ""),
     \* agbnp3_scaling_factors                       agbnp3_utils.c:464-553
     I("sf_add_volumep", "critical", FALSE, ""),
     I("sf_add_surf_area", "critical", FALSE, ""),
     I("sf_barrier1", sf_barrier_497, FALSE, ""),
     I("sf_filter", "single", FALSE, ""),
     I("sf_local", "local", FALSE, ""),
     I("sf_barrier2", sf_barrier_543, FALSE, ""),
     I("sf_sync", "single", FALSE, ""),
     I("chk_sf", "check", FALSE, ""),
     \* cavity energy and molecular volume           libagbnp3.c:1976-1996
     I("te_barrier_1976", "barrier", FALSE, ""),
     I("ecav_single", "sbegin", TRUE, "molv_single"),
     I("ecav_init", "sbody", TRUE, ""),
     I("ecav_test", "sbody", TRUE, "molv_single"),
     I("ecav_add", "sbody", TRUE, "ecav_test"),
     I("molv_single", "sbegin", FALSE, "molv_end"),
     I("molv_init", "sbody", FALSE, ""),
     I("molv_test", "sbody", FALSE, "molv_end"),
     I("molv_add", "sbody", FALSE, "molv_test"),
     I("molv_end", "barrier", FALSE, ""),
     \* agbnp3_inverse_born_radii_nolist_soa         libagbnp3.c:2017-2025
     I("inverse_born_radii", "local", FALSE, ""),
     I("chk_ib", "check", FALSE, ""),
     \* agbnp3_born_radii                            agbnp3_utils.c:555-610
     I("br_add", "critical", FALSE, ""),
     I("br_barrier1", br_barrier_581, FALSE, ""),
     I("br_local", "local", FALSE, ""),
     I("br_barrier2", br_barrier_598, FALSE, ""),
     I("br_sync_br1", "single", TRUE, ""),
     I("br_sync_br", "single", TRUE, ""),
     I("br_sync_br1_swf_der", "single", TRUE, ""),
     I("br_sync_brw", "single", FALSE, ""),
     I("chk_br", "check", FALSE, ""),
     \* van der Waals energy                         libagbnp3.c:2050-2071
     I("te_barrier_2050", "barrier", FALSE, ""),
     I("evdw", "single", FALSE, ""),
     \* agbnp3_gb_energy_nolist_ps                   libagbnp3.c:2085-2093
     I("gb_energy_local", "local", FALSE, ""),
     I("gb_energy_add", "critical", FALSE, ""),
     I("chk_gb", "check", FALSE, ""),
     \* GB energy                                    libagbnp3.c:2095-2102
     I("te_barrier_2095", "barrier", FALSE, ""),
     I("egb", "single", FALSE, ""),
     \* agbnp3_gb_ders_constvp_nolist_ps             libagbnp3.c:2121-2129
     I("gb_ders_constvp", "local", FALSE, ""),
     I("gd_barrier", "barrier", FALSE, ""),
     I("chk_gd", "check", FALSE, ""),
     \* agbnp3_create_wsatoms                        libagbnp3.c:2393-2470
     I("ws_alloc", "wsalloc", FALSE, "chk_ws"),
     I("ws_loop", "wsloop", FALSE, ""),
     I("ws_barrier", "barrier", FALSE, ""),
     I("chk_ws", "check", FALSE, ""),
     \* agbnp3_ws_free_volumes_scalev_ps             libagbnp3.c:2163-2170
     I("hb_local", "local", FALSE, ""),
     I("hb_add", "critical", FALSE, ""),
     I("hb_barrier", "barrier", FALSE, ""),
     I("chk_hb", "check", FALSE, ""),
     \* agbnp3_gb_deruv_nolist_ps                    libagbnp3.c:2189-2196
     I("gb_deruv", "local", FALSE, ""),
     I("uv_barrier", "barrier", FALSE, ""),
     I("chk_uv", "check", FALSE, ""),
     \* agbnp3_der_vp_rooti                          libagbnp3.c:2214-2221
     I("der_vp", "local", FALSE, ""),
     I("vp_barrier", "barrier", FALSE, ""),
     I("chk_vp", "check", FALSE, ""),
     \* agbnp3_cavity_dersgb_rooti                   libagbnp3.c:2240-2247
     I("cavity_dersgb", "local", FALSE, ""),
     I("cav_barrier", "barrier", FALSE, ""),
     I("chk_cav", "check", FALSE, ""),
     \* reduction of derivatives                     libagbnp3.c:2276-2300
     I("red_dgbdr", red_dgbdr_construct, FALSE, ""),
     I("red_dvwdr", "critical", FALSE, ""),
     I("red_decav", "critical", FALSE, ""),
     I("red_dehb", "critical", FALSE, ""),
     I("red_barrier", "barrier", FALSE, "") >>

Idx(name) == CHOOSE k \in DOMAIN Prog : Prog[k].name = name

\* the labels DONE and ERROR (libagbnp3.c:2305-2309): the end of the region
DonePC == Len(Prog) + 1
ErrPC == Len(Prog) + 2
AtEnd(p) == p >= DonePC
Instr(p) == Prog[p]
KindAt(p) == IF AtEnd(p) THEN "end" ELSE Prog[p].kind

\* ------------------------------------------------------------ data state
Zero(c) == [i \in AtomsOf(c) |-> 0]

DerNames ==
  {"dgbdr_h", "dvwdr_h", "decav_h", "dehb", "dera", "deru", "derv", "derus",
   "dervs", "derh"}

ForceNames == {"dgbdr", "dvwdr", "decav", "dehb"}

\* agb->agbw and the arrays of agb itself, calloc'ed by agbnp3_new
MInit(c) ==
  [volumep |-> Zero(c), surf_area |-> Zero(c), surf_area_f |-> Zero(c),
   sp |-> Zero(c), br1 |-> Zero(c), br |-> Zero(c), br1_swf_der |-> Zero(c),
   brw |-> Zero(c), mvpji |-> Zero(c),
   der |-> [n \in DerNames |-> Zero(c)],
   ehb |-> 0,
   agb_surf_area |-> Zero(c), agb_br |-> Zero(c), agb_sp |-> Zero(c),
   agb_der |-> [n \in ForceNames |-> Zero(c)]]

\* agb->agbw_p[iproc]
HInit(c) ==
  [volumep |-> Zero(c), surf_area |-> Zero(c), sp |-> Zero(c),
   br1 |-> Zero(c), br |-> Zero(c), br1_swf_der |-> Zero(c), brw |-> Zero(c),
   der |-> [n \in DerNames |-> Zero(c)],
   q4cache |-> << >>, iq4cache |-> 0]

ShInit == [i |-> 0, iat |-> 0, egb_self |-> 0, egb_pair |-> 0]

\* The caller's buffers hold whatever the caller left in them
OutInit(c) ==
  [egb |-> -1, evdw |-> -1, ecorr_vdw |-> -1, ecav |-> -1, ecorr_cav |-> -1,
   mol_volume |-> -1, ehb |-> -1,
   br |-> [i \in AtomsOf(c) |-> -1], sp |-> [i \in AtomsOf(c) |-> -1],
   surf_area |-> [i \in AtomsOf(c) |-> -1],
   force |-> [n \in ForceNames |-> [i \in AtomsOf(c) |-> -1]]]

\* agbw->wsat (the entries written so far), wsat_size, nwsat; error, iat and
\* the return value of the call of agbnp3_create_wsatoms in progress or last
\* made; the number of calls made and whether an allocation failed in the last
WsInit ==
  [alloc |-> FALSE, wsat |-> << >>, wsat_size |-> 0, nwsat |-> 0, error |-> 0,
   at |-> "idle", iat |-> 0, ncalls |-> 0, ret |-> AGBNP_OK, nomem |-> FALSE]

GInit ==
  [sfAdded |-> {}, sfRead |-> {}, brAdds |-> [w \in Workers |-> 0],
   brRead |-> {},
   q4fills |-> [w \in Workers |-> 0], q4reads |-> [w \in Workers |-> << >>]]

NoResult == [none |-> TRUE]

\* no function is followed on its own
NoFrame == [fn |-> "none"]

PipeInit ==
  /\ pc = [w \in Workers |-> DonePC]
  /\ atbar = [w \in Workers |-> FALSE]
  /\ res = [w \in Workers |-> AGBNP_OK]
  /\ claimed = {}
  /\ error = 0
  /\ spent = {}
  /\ hung = FALSE
  /\ phase = "idle"
  /\ neval = 0
  /\ ret = AGBNP_OK
  /\ out = OutInit(conf)
  /\ pre = OutInit(conf)
  /\ first = NoResult
  /\ m = MInit(conf)
  /\ h = [w \in Workers |-> HInit(conf)]
  /\ sh = ShInit
  /\ ws = [w \in Workers |-> WsInit]
  /\ g = GInit

\* ------------------------------------------------------------ arithmetic
\* sqrt of a non-negative 32-bit integer, rounded down, by bisection
RECURSIVE ISqrtIn(_, _, _)
ISqrtIn(n, lo, hi) ==
  IF lo = hi THEN lo
  ELSE LET mid == (lo + hi + 1) \div 2
       IN IF mid * mid <= n THEN ISqrtIn(n, mid, hi)
          ELSE ISqrtIn(n, lo, mid - 1)

ISqrt(n) == ISqrtIn(n, 0, IF n < 46340 THEN n ELSE 46340)

\* agbnp3_init_agbworkdata: vols[iat] = (4 pi/3) r^3
vols(c, i) == (4 * pi * c.r[i] * c.r[i] * c.r[i]) \div 3

\* agbnp3_swf_area: f = x^2/(a2+x^2), fp = 2t(1-f) with t = x/(a2+x^2);
\* 0 and 0 for negative x. x is a plain integer, f and fp are times Scale.
swf_area(x) ==
  IF x < 0 THEN [f |-> 0, fp |-> 0]
  ELSE LET f == (x * x * Scale) \div (5 * 5 + x * x)
       IN [f |-> f, fp |-> (2 * x * (Scale - f)) \div (5 * 5 + x * x)]

\* a filter that reflects a negative sum instead of replacing it by a
swf_invbr_abs(beta) ==
  LET a == (2 * Scale) \div 100
  IN [f |-> ISqrt(IF beta < 0 THEN beta * beta ELSE a * a + beta * beta),
      fp |-> 0]

\* agbnp3_swf_invbr: a = 0.02 for negative beta, sqrt(a^2+beta^2) otherwise.
\* beta and the results are times Scale.
swf_invbr(beta) ==
  LET a == (2 * Scale) \div 100
  IN IF beta < 0 THEN [f |-> a, fp |-> 0]
     ELSE LET t == ISqrt(a * a + beta * beta)
          IN [f |-> t, fp |-> (beta * Scale) \div t]

\* AGBNP_BRW(b, rw) = 3 b^2/(b+rw)^4 with rw = 1.4; b is times Scale
brw_of(b) ==
  LET bw == b + (14 * Scale) \div 10
      q == (b * Scale) \div bw
  IN (3 * q * q * Scale) \div (bw * bw)

\* a = 1/(br+rw)^3 of libagbnp3.c:2063-2064, times Scale
vdw_a(b) ==
  LET bw == b + (14 * Scale) \div 10
      u == (Scale * Scale) \div bw
  IN (u * u * u) \div (Scale * Scale)

\* per-atom parameters of the structure (agb->igamma, sgamma, ialpha, ...)
igamma(c, i) == 1
sgamma(c, i) == 2
ialpha(c, i) == 1
salpha(c, i) == 2
idelta(c, i) == 0
sdelta(c, i) == 1
iheavyat(c, i) == i

RECURSIVE SumOver(_, _)
SumOver(f, S) ==
  IF S = {} THEN 0
  ELSE LET i == CHOOSE j \in S : TRUE IN f[i] + SumOver(f, S \ {i})

\* ------------------------------------------------------------ the stages
Cur == [m |-> m, h |-> h, sh |-> sh, out |-> out, g |-> g]

\* The near pairs (i, j) of worker w's own lists, in list order
RECURSIVE PairSeqFrom(_, _)
PairSeqFrom(w, i) ==
  IF i >= conf.nheavyat THEN << >>
  ELSE [k \in 1 .. nl[w].nne[i] |->
          << i, nl[w].neighl1[nl[w].neighl[i].off + k - 1] >>]
       \o PairSeqFrom(w, i + 1)

PairSeq(w) == PairSeqFrom(w, 0)

NPairsWith(w, a) ==
  Cardinality({k \in DOMAIN PairSeq(w) :
                 PairSeq(w)[k][1] = a \/ PairSeq(w)[k][2] = a})

\* The atoms that schedule(static,1) gives to worker w
Mine(w) == {i \in AtomsOf(conf) : i % team = w}

\* agbnp3_utils.c:421-425
reset_buffers_memset(w) ==
  [Cur EXCEPT !.h[w].volumep = Zero(conf), !.h[w].surf_area = Zero(conf),
              !.h[w].br1 = Zero(conf)]

\* agbnp3_utils.c:427-433
reset_buffers_volumep(w) ==
  [Cur EXCEPT !.m.volumep =
     [i \in AtomsOf(conf) |-> IF i < conf.nheavyat THEN vols(conf, i) ELSE 0]]

\* agbnp3_utils.c:434-440
reset_buffers_surf_area(w) ==
  [Cur EXCEPT !.m.surf_area =
     [i \in AtomsOf(conf) |->
        IF i < conf.nheavyat THEN 4 * pi * conf.r[i] * conf.r[i] ELSE 0]]

\* agbnp3_utils.c:441-446
reset_buffers_mvpji(w) == [Cur EXCEPT !.m.mvpji = Zero(conf)]

\* agbnp3_utils.c:447-452
reset_buffers_br1(w) ==
  [Cur EXCEPT !.m.br1 =
     [i \in AtomsOf(conf) |-> Scale \div (conf.r[i] - AGBNP_RADIUS_INCREMENT)]]

\* agbnp3_utils.c:453-456
reset_buffers_ehb(w) == [Cur EXCEPT !.m.ehb = 0]

\* agbnp3_utils.c:616-627
reset_derivatives_memset(w) ==
  [Cur EXCEPT !.h[w].der = [n \in DerNames |-> Zero(conf)]]

\* agbnp3_utils.c:629-648, one single per array
reset_derivatives_master(n) == [Cur EXCEPT !.m.der[n] = Zero(conf)]

\* agbnp3_self_volumes_rooti: each near pair of the worker's lists takes one
\* unit of volume and two of surface area from both atoms, in the worker's
\* own buffers
self_volumes_rooti(w) ==
  [Cur EXCEPT !.h[w].volumep =
                 [i \in AtomsOf(conf) |-> h[w].volumep[i] - NPairsWith(w, i)],
              !.h[w].surf_area =
                 [i \in AtomsOf(conf) |-> h[w].surf_area[i] - 2 * NPairsWith(w, i)]]

\* agbnp3_utils.c:489-492
scaling_factors_add_volumep(w) ==
  [Cur EXCEPT !.m.volumep =
     [i \in AtomsOf(conf) |->
        IF i < conf.nheavyat THEN m.volumep[i] + h[w].volumep[i]
        ELSE m.volumep[i]]]

\* agbnp3_utils.c:493-496
scaling_factors_add_surf_area(w) ==
  [Cur EXCEPT !.m.surf_area =
                 [i \in AtomsOf(conf) |->
                    IF i < conf.nheavyat THEN m.surf_area[i] + h[w].surf_area[i]
                    ELSE m.surf_area[i]],
              !.g.sfAdded = g.sfAdded \cup {w}]

\* the area taken as it is, without the switching function
FilteredArea_unfiltered(a) == a

FilteredArea(a) == (a * swf_area(a).f) \div Scale

\* agbnp3_utils.c:500-512
scaling_factors_filter(w) ==
  LET filt == [i \in AtomsOf(conf) |->
                 IF i < conf.nheavyat THEN FilteredArea(m.surf_area[i]) ELSE 0]
  IN [Cur EXCEPT !.m.agb_surf_area = filt, !.m.surf_area_f = filt]

\* us = r (1 - (rvdw/r)^3)/3 of agbnp3_utils.c:525-529, times Scale
us_of(c, i) ==
  LET r == c.r[i]
      rvdw == c.r[i] - AGBNP_RADIUS_INCREMENT
  IN (Scale * (r * r * r - rvdw * rvdw * rvdw)) \div (3 * r * r)

SurfaceCorrected(c, i, vol, areaf) == vol - (areaf * us_of(c, i)) \div Scale

\* agbnp3_utils.c:516-538: reads the master volumep and surf_area_f
scaling_factors_local(w) ==
  LET vh == [i \in AtomsOf(conf) |->
               IF i < conf.nheavyat
               THEN SurfaceCorrected(conf, i, m.volumep[i], m.surf_area_f[i])
               ELSE h[w].volumep[i]]
  IN [Cur EXCEPT !.h[w].volumep = vh,
                 !.h[w].sp = [i \in AtomsOf(conf) |->
                                IF i < conf.nheavyat
                                THEN (vh[i] * Scale) \div vols(conf, i)
                                ELSE h[w].sp[i]],
                 !.g.sfRead = g.sfRead \cup {w}]

\* agbnp3_utils.c:544-549
scaling_factors_sync(w) ==
  [Cur EXCEPT !.m.volumep =
                 [i \in AtomsOf(conf) |->
                    IF i < conf.nheavyat THEN h[w].volumep[i] ELSE m.volumep[i]],
              !.m.sp =
                 [i \in AtomsOf(conf) |->
                    IF i < conf.nheavyat THEN h[w].sp[i] ELSE m.sp[i]]]

\* libagbnp3.c:1980-1982
ecav_init(w) ==
  [Cur EXCEPT !.out.ecav = 0, !.out.ecorr_cav = 0, !.sh.i = 0]

\* libagbnp3.c:1982-1983 and 1992-1993: "i<nheavyat" and "iat = iheavyat[i]"
\* on the shared i and iat
loop_test(w) ==
  IF sh.i < conf.nheavyat
  THEN [Cur EXCEPT !.sh.iat = iheavyat(conf, sh.i)]
  ELSE Cur

\* libagbnp3.c:1984-1985 and the i++ of line 1982
ecav_add(w) ==
  [Cur EXCEPT !.out.ecav = out.ecav + igamma(conf, sh.iat) * m.agb_surf_area[sh.iat],
              !.out.ecorr_cav =
                 out.ecorr_cav + sgamma(conf, sh.iat) * m.agb_surf_area[sh.iat],
              !.sh.i = sh.i + 1]

\* libagbnp3.c:1991-1992
molv_init(w) == [Cur EXCEPT !.out.mol_volume = 0, !.sh.i = 0]

\* libagbnp3.c:1994 and the i++ of line 1992
molv_add(w) ==
  [Cur EXCEPT !.out.mol_volume = out.mol_volume + m.volumep[sh.iat],
              !.sh.i = sh.i + 1]

\* the pairwise kernel of atom j on atom i
Kernel(c, i, j) == (Scale * c.r[j]) \div (c.r[i] + D2(c, i, j) + 1)

\* The derivative of the kernel, cached next to its value
KernelDer(c, i, j) == (-1) - Kernel(c, i, j)

\* The cache layout that agbnp3_gb_deruv replays and that the capacity
\* 4*(nnl+nnlrc) provides for: four slots per listed pair, the kernel of
\* (i, j), its derivative, the kernel of (j, i), its derivative
q4_of_pairs(c, ps) ==
  [n \in 1 .. (4 * Len(ps)) |->
     LET k == ((n - 1) \div 4) + 1
         r == (n - 1) % 4
     IN CASE r = 0 -> Kernel(c, ps[k][1], ps[k][2])
          [] r = 1 -> KernelDer(c, ps[k][1], ps[k][2])
          [] r = 2 -> Kernel(c, ps[k][2], ps[k][1])
          [] r = 3 -> KernelDer(c, ps[k][2], ps[k][1])]

\* agbnp3_inverse_born_radii_nolist_soa: the kernel values of every listed
\* pair go to the worker's q4cache in traversal order and are taken from the
\* worker's partial inverse radii
inverse_born_radii(w) ==
  LET ps == PairSeq(w)
      taken(a) == SumOver([k \in DOMAIN ps |->
                             (IF ps[k][1] = a
                              THEN Kernel(conf, a, ps[k][2]) ELSE 0)
                             + (IF ps[k][2] = a
                                THEN Kernel(conf, a, ps[k][1]) ELSE 0)],
                          DOMAIN ps)
  IN [Cur EXCEPT !.h[w].q4cache = q4_of_pairs(conf, ps), !.h[w].iq4cache = 0,
                 !.g.q4fills[w] = g.q4fills[w] + 1,
                 !.h[w].br1 = [i \in AtomsOf(conf) |-> h[w].br1[i] - taken(i)]]

\* agbnp3_utils.c:577-580
born_radii_add(w) ==
  [Cur EXCEPT !.m.br1 = [i \in AtomsOf(conf) |-> m.br1[i] + h[w].br1[i]],
              !.g.brAdds[w] = g.brAdds[w] + 1]

\* agbnp3_utils.c:585-594: reads the master br1
born_radii_local(w) ==
  LET b1 == [i \in AtomsOf(conf) |-> swf_invbr(m.br1[i]).f]
      b == [i \in AtomsOf(conf) |-> (Scale * Scale) \div b1[i]]
  IN [Cur EXCEPT !.h[w].br1 = b1,
                 !.h[w].br1_swf_der = [i \in AtomsOf(conf) |-> swf_invbr(m.br1[i]).fp],
                 !.h[w].br = b,
                 !.h[w].brw = [i \in AtomsOf(conf) |-> brw_of(b[i])],
                 !.g.brRead = g.brRead \cup {w}]

\* agbnp3_utils.c:599-606
born_radii_sync_br1(w) == [Cur EXCEPT !.m.br1 = h[w].br1]
born_radii_sync_br(w) == [Cur EXCEPT !.m.br = h[w].br]
born_radii_sync_br1_swf_der(w) == [Cur EXCEPT !.m.br1_swf_der = h[w].br1_swf_der]
born_radii_sync_brw(w) == [Cur EXCEPT !.m.brw = h[w].brw]

\* libagbnp3.c:2053-2071
evdw_single(w) ==
  [Cur EXCEPT !.m.agb_br = m.br,
              !.out.evdw =
                 SumOver([i \in AtomsOf(conf) |->
                            ialpha(conf, i) * vdw_a(m.br[i]) + idelta(conf, i)],
                         AtomsOf(conf)),
              !.out.ecorr_vdw =
                 SumOver([i \in AtomsOf(conf) |->
                            salpha(conf, i) * vdw_a(m.br[i]) + sdelta(conf, i)],
                         AtomsOf(conf))]

\* agbnp3_gb_energy_nolist_ps: pair forces into the worker's dgbdr_h
gb_energy_local(w) ==
  [Cur EXCEPT !.h[w].der["dgbdr_h"] =
     [i \in AtomsOf(conf) |->
        h[w].der["dgbdr_h"][i]
        + Cardinality({k \in DOMAIN PairSeq(w) : PairSeq(w)[k][1] = i})
        - Cardinality({k \in DOMAIN PairSeq(w) : PairSeq(w)[k][2] = i})]]

\* agbnp3_gb_energy_nolist_ps: the worker's terms go to the shared egb_self and
\* egb_pair under the shared-resource policy
gb_energy_add(w) ==
  [Cur EXCEPT !.sh.egb_self =
                 sh.egb_self +
                 SumOver([i \in AtomsOf(conf) |-> (Scale * Scale) \div m.br[i]],
                         Mine(w)),
              !.sh.egb_pair = sh.egb_pair + Len(PairSeq(w))]

\* libagbnp3.c:2097-2102
egb_single(w) ==
  [Cur EXCEPT !.sh.egb_self = sh.egb_self * tokcalmol,
              !.sh.egb_pair = sh.egb_pair * tokcalmol,
              !.out.egb = sh.egb_self * tokcalmol + sh.egb_pair * tokcalmol]

\* agbnp3_gb_ders_constvp_nolist_ps
gb_ders_constvp(w) ==
  [Cur EXCEPT !.h[w].der["dera"] =
     [i \in AtomsOf(conf) |-> h[w].der["dera"][i] + IF i \in Mine(w) THEN 1 ELSE 0]]

\* agbnp3_ws_free_volumes_scalev_ps: one force term per water site on its
\* parent atom ...
ws_free_volumes_local(w) ==
  [Cur EXCEPT !.h[w].der["dehb"] =
     [i \in AtomsOf(conf) |->
        h[w].der["dehb"][i] + IF i \in Mine(w) \cap HbActive(conf) THEN 1 ELSE 0]]

\* ... and the energy of the worker's sites into agb->ehb
ws_free_volumes_add(w) == [Cur EXCEPT !.m.ehb = m.ehb + ws[w].nwsat * Scale]

\* a derivative pass that empties the cache as it replays it
gb_deruv_consuming(w) ==
  [Cur EXCEPT !.h[w].iq4cache = 0, !.h[w].q4cache = << >>]

\* a reader that does not advance past the entry it has read
q4_next_stuck(iq4cache) == iq4cache

\* q = q4cache[iq4cache++]; iq4cache += 1;  the index after one read
q4_next(iq4cache) == (iq4cache + 1) + 1

\* The indices that n successive reads starting at iq4cache fetch
RECURSIVE q4_reads(_, _)
q4_reads(iq4cache, n) ==
  IF n = 0 THEN << >>
  ELSE << iq4cache >> \o q4_reads(q4_next(iq4cache), n - 1)

\* The reads of agbnp3_gb_deruv over a worker's lists: iq4cache starts at 0;
\* two reads for every entry of the near list of every heavy atom; the far
\* lists, which agbnp3_neighbor_lists leaves empty, add none
deruv_nreads(w) == 2 * Len(PairSeq(w))

\* The value a read of slot idx fetches
q4_fetch(cache, idx) == IF (idx + 1) \in DOMAIN cache THEN cache[idx + 1] ELSE 0

\* agbnp3_gb_deruv_nolist_ps: replays the worker's q4cache as
\* agbnp3_gb_deruv does
gb_deruv_nolist(w) ==
  LET rd == q4_reads(0, deruv_nreads(w))
  IN [Cur EXCEPT !.h[w].iq4cache = IF rd = << >> THEN 0
                                      ELSE q4_next(rd[Len(rd)]),
                 !.g.q4reads[w] = g.q4reads[w] \o rd,
                 !.h[w].der["deru"] =
                    [i \in AtomsOf(conf) |->
                       h[w].der["deru"][i] +
                       IF i \in Mine(w)
                       THEN SumOver([k \in DOMAIN rd |->
                                       q4_fetch(h[w].q4cache, rd[k])], DOMAIN rd)
                       ELSE 0]]

\* agbnp3_der_vp_rooti
der_vp_rooti(w) ==
  [Cur EXCEPT !.h[w].der["dvwdr_h"] =
     [i \in AtomsOf(conf) |->
        h[w].der["dvwdr_h"][i] + IF i \in Mine(w) THEN m.brw[i] ELSE 0]]

\* agbnp3_cavity_dersgb_rooti
cavity_dersgb_rooti(w) ==
  [Cur EXCEPT !.h[w].der["decav_h"] =
     [i \in AtomsOf(conf) |->
        h[w].der["decav_h"][i] + IF i \in Mine(w) THEN m.surf_area_f[i] ELSE 0]]

\* libagbnp3.c:2276-2299, one critical per array
reduce_derivatives(w, n) ==
  [Cur EXCEPT !.m.der[n] =
     [i \in AtomsOf(conf) |-> m.der[n][i] + h[w].der[n][i]]]

\* What the worker that runs instruction name changes
Effect(name, w) ==
  CASE name = "rb_memset" -> reset_buffers_memset(w)
    [] name = "rb_volumep" -> reset_buffers_volumep(w)
    [] name = "rb_surf_area" -> reset_buffers_surf_area(w)
    [] name = "rb_mvpji" -> reset_buffers_mvpji(w)
    [] name = "rb_br1" -> reset_buffers_br1(w)
    [] name = "rb_ehb" -> reset_buffers_ehb(w)
    [] name = "rd_memset" -> reset_derivatives_memset(w)
    [] name = "rd_dgbdr_h" -> reset_derivatives_master("dgbdr_h")
    [] name = "rd_dvwdr_h" -> reset_derivatives_master("dvwdr_h")
    [] name = "rd_decav_h" -> reset_derivatives_master("decav_h")
    [] name = "rd_dehb" -> reset_derivatives_master("dehb")
    [] name = "rd_dera" -> reset_derivatives_master("dera")
    [] name = "rd_deru" -> reset_derivatives_master("deru")
    [] name = "rd_derv" -> reset_derivatives_master("derv")
    [] name = "rd_derus" -> reset_derivatives_master("derus")
    [] name = "rd_dervs" -> reset_derivatives_master("dervs")
    [] name = "rd_derh" -> reset_derivatives_master("derh")
    [] name = "self_volumes" -> self_volumes_rooti(w)
    [] name = "sf_add_volumep" -> scaling_factors_add_volumep(w)
    [] name = "sf_add_surf_area" -> scaling_factors_add_surf_area(w)
    [] name = "sf_filter" -> scaling_factors_filter(w)
    [] name = "sf_local" -> scaling_factors_local(w)
    [] name = "sf_sync" -> scaling_factors_sync(w)
    [] name = "ecav_init" -> ecav_init(w)
    [] name = "ecav_test" -> loop_test(w)
    [] name = "ecav_add" -> ecav_add(w)
    [] name = "molv_init" -> molv_init(w)
    [] name = "molv_test" -> loop_test(w)
    [] name = "molv_add" -> molv_add(w)
    [] name = "inverse_born_radii" -> inverse_born_radii(w)
    [] name = "br_add" -> born_radii_add(w)
    [] name = "br_local" -> born_radii_local(w)
    [] name = "br_sync_br1" -> born_radii_sync_br1(w)
    [] name = "br_sync_br" -> born_radii_sync_br(w)
    [] name = "br_sync_br1_swf_der" -> born_radii_sync_br1_swf_der(w)
    [] name = "br_sync_brw" -> born_radii_sync_brw(w)
    [] name = "evdw" -> evdw_single(w)
    [] name = "gb_energy_local" -> gb_energy_local(w)
    [] name = "gb_energy_add" -> gb_energy_add(w)
    [] name = "egb" -> egb_single(w)
    [] name = "gb_ders_constvp" -> gb_ders_constvp(w)
    [] name = "hb_local" -> ws_free_volumes_local(w)
    [] name = "hb_add" -> ws_free_volumes_add(w)
    [] name = "gb_deruv" -> gb_deruv_nolist(w)
    [] name = "der_vp" -> der_vp_rooti(w)
    [] name = "cavity_dersgb" -> cavity_dersgb_rooti(w)
    [] name = "red_dgbdr" -> reduce_derivatives(w, "dgbdr_h")
    [] name = "red_dvwdr" -> reduce_derivatives(w, "dvwdr_h")
    [] name = "red_decav" -> reduce_derivatives(w, "decav_h")
    [] name = "red_dehb" -> reduce_derivatives(w, "dehb")
    [] OTHER -> Cur

vars == << fr, conf, team, nlw, nl, pc, atbar, res, claimed, error, spent, hung,
          phase, neval, ret, out, pre, first, m, h, sh, ws, g >>

pipevars == << pc, atbar, res, claimed, error, spent, hung,
               phase, neval, ret, out, pre, first, m, h, sh, ws, g >>

\* ---------------------------------------------------------------- Spec
Running(w) == phase = "par" /\ ~hung /\ ~atbar[w] /\ ~AtEnd(pc[w])

Apply(e) ==
  /\ m' = e.m
  /\ h' = e.h
  /\ sh' = e.sh
  /\ out' = e.out
  /\ g' = e.g

Goto(w, p) == pc' = [pc EXCEPT ![w] = p]

\* agbnp3_ener calls agbnp3_total_energy, which forks the team
\* (libagbnp3.c:544, 1833, 1852, 1870). The caller evaluates the same
\* coordinates again, and stops at the first failure.
EnerCall ==
  /\ phase = "idle" /\ ~hung
  /\ neval < MaxEvals
  /\ ret = AGBNP_OK
  /\ neval' = neval + 1
  /\ phase' = "par"
  /\ pre' = out
  /\ error' = 0
  /\ sh' = ShInit
  /\ claimed' = {}
  /\ spent' = {}
  /\ pc' = [w \in Workers |-> 1]
  /\ atbar' = [w \in Workers |-> FALSE]
  /\ res' = [w \in Workers |-> AGBNP_OK]
  /\ g' = GInit
  /\ UNCHANGED << fr, conf, team, nlw, nl, hung, ret, out, first, m, h, ws >>

\* statements on the worker's own data
Local(w) ==
  /\ Running(w) /\ KindAt(pc[w]) = "local"
  /\ Apply(Effect(Instr(pc[w]).name, w))
  /\ Goto(w, pc[w] + 1)
  /\ UNCHANGED << fr, conf, team, nlw, nl, atbar, res, claimed, error, spent, hung,
                  phase, neval, ret, pre, first, ws >>

\* the body of an omp critical, one worker at a time
Critical(w) ==
  /\ Running(w) /\ KindAt(pc[w]) = "critical"
  /\ Apply(Effect(Instr(pc[w]).name, w))
  /\ Goto(w, pc[w] + 1)
  /\ UNCHANGED << fr, conf, team, nlw, nl, atbar, res, claimed, error, spent, hung,
                  phase, neval, ret, pre, first, ws >>

\* an omp single: the first worker to arrive runs the body, the others skip
\* it; without nowait all wait at its end
Single(w) ==
  /\ Running(w) /\ KindAt(pc[w]) = "single"
  /\ LET ins == Instr(pc[w])
     IN /\ claimed' = claimed \cup {ins.name}
        /\ Apply(IF ins.name \in claimed THEN Cur ELSE Effect(ins.name, w))
        /\ IF ins.nowait
           THEN Goto(w, pc[w] + 1) /\ UNCHANGED atbar
           ELSE atbar' = [atbar EXCEPT ![w] = TRUE] /\ UNCHANGED pc
  /\ UNCHANGED << fr, conf, team, nlw, nl, res, error, spent, hung,
                  phase, neval, ret, pre, first, ws >>

\* entry of an omp single whose body is followed statement by statement
SingleBegin(w) ==
  /\ Running(w) /\ KindAt(pc[w]) = "sbegin"
  /\ LET ins == Instr(pc[w])
     IN /\ claimed' = claimed \cup {ins.name}
        /\ Goto(w, IF ins.name \in claimed THEN Idx(ins.to) ELSE pc[w] + 1)
  /\ UNCHANGED << fr, conf, team, nlw, nl, atbar, res, error, spent, hung,
                  phase, neval, ret, out, pre, first, m, h, sh, ws, g >>

IsLoopTest(name) == name \in {"ecav_test", "molv_test"}

\* one statement of the body of such a single
SingleBody(w) ==
  /\ Running(w) /\ KindAt(pc[w]) = "sbody"
  /\ LET ins == Instr(pc[w])
     IN /\ Apply(Effect(ins.name, w))
        /\ Goto(w, IF ins.to = "" THEN pc[w] + 1
                   ELSE IF IsLoopTest(ins.name) /\ sh.i < conf.nheavyat
                   THEN pc[w] + 1
                   ELSE Idx(ins.to))
  /\ UNCHANGED << fr, conf, team, nlw, nl, atbar, res, claimed, error, spent, hung,
                  phase, neval, ret, pre, first, ws >>

\* arrival at an omp barrier (explicit, or at the end of a loop)
Barrier(w) ==
  /\ Running(w) /\ KindAt(pc[w]) = "barrier"
  /\ atbar' = [atbar EXCEPT ![w] = TRUE]
  /\ UNCHANGED << fr, conf, team, nlw, nl, pc, res, claimed, error, spent, hung,
                  phase, neval, ret, out, pre, first, m, h, sh, ws, g >>

\* every worker of the team has arrived
BarrierRelease ==
  /\ phase = "par" /\ ~hung
  /\ \A w \in Workers : atbar[w]
  /\ pc' = [w \in Workers |-> pc[w] + 1]
  /\ atbar' = [w \in Workers |-> FALSE]
  /\ UNCHANGED << fr, conf, team, nlw, nl, res, claimed, error, spent, hung,
                  phase, neval, ret, out, pre, first, m, h, sh, ws, g >>

\* "if(res != AGBNP_OK){ atomic error += 1; } flush(error); if(error) goto ERROR;"
Check(w) ==
  /\ Running(w) /\ KindAt(pc[w]) = "check"
  /\ LET e == error + (IF res[w] # AGBNP_OK THEN 1 ELSE 0)
     IN /\ error' = e
        /\ Goto(w, IF e # 0 THEN ErrPC ELSE pc[w] + 1)
  /\ UNCHANGED << fr, conf, team, nlw, nl, atbar, res, claimed, spent, hung,
                  phase, neval, ret, out, pre, first, m, h, sh, ws, g >>

\* agbnp3_neighbor_lists run to its return: the first nf growths of the
\* near list fail, q4ok is the outcome of the cache allocation
RECURSIVE NLRun(_, _, _, _, _, _, _)
NLRun(c, s, w, t, nf, q4ok, moved) ==
  IF s.pc = "done" THEN s
  ELSE LET ok == IF s.pc = "while" THEN s.nfailed >= nf ELSE q4ok
       IN NLRun(c, NLStep(c, s, w, t, ok, moved), w, t, nf, q4ok, moved)

NeighborLists(w) ==
  /\ Running(w) /\ KindAt(pc[w]) = "nl"
  /\ \E nf \in 0 .. MaxAllocFail, q4ok \in BOOLEAN, moved \in BOOLEAN :
       LET s2 == NLRun(conf, [nl[w] EXCEPT !.pc = "idle"], w, team, nf, q4ok, moved)
       IN /\ nl' = [nl EXCEPT ![w] = s2]
          /\ res' = [res EXCEPT ![w] = s2.res]
  /\ Goto(w, pc[w] + 1)
  /\ UNCHANGED << fr, conf, team, nlw, atbar, claimed, error, spent, hung,
                  phase, neval, ret, out, pre, first, m, h, sh, ws, g >>

\* libagbnp3.c:2408-2417 when the list exists or calloc succeeds
WsAlloc(w) ==
  /\ Running(w) /\ KindAt(pc[w]) = "wsalloc"
  /\ ws' = [ws EXCEPT ![w] =
              IF ws[w].alloc THEN ws[w]
              ELSE [ws[w] EXCEPT !.alloc = TRUE, !.wsat_size = conf.nheavyat]]
  /\ Goto(w, pc[w] + 1)
  /\ UNCHANGED << fr, conf, team, nlw, nl, atbar, res, claimed, error, spent, hung,
                  phase, neval, ret, out, pre, first, m, h, sh, g >>

\* libagbnp3.c:2412-2415: calloc fails, return AGBNP_ERR before the loop
WsAllocFail(w) ==
  /\ Running(w) /\ KindAt(pc[w]) = "wsalloc"
  /\ ~ws[w].alloc
  /\ res' = [res EXCEPT ![w] = AGBNP_ERR]
  /\ Goto(w, Idx(Instr(pc[w]).to))
  /\ UNCHANGED << fr, conf, team, nlw, nl, atbar, claimed, error, spent, hung,
                  phase, neval, ret, out, pre, first, m, h, sh, ws, g >>

\* The outcome of a constructor: its return value and *nws, which
\* agbnp3_create_ws_ofatom has set to 0 before the call
WsMade(n) == [res |-> AGBNP_OK, nws |-> n]
WsNone == [res |-> AGBNP_ERR, nws |-> 0]

\* The constructor that agbnp3_create_ws_ofatom (libagbnp3.c:2478-2567)
\* chooses for a class and a count of bonded atoms, and what it returns; no
\* constructor when no branch matches
ws_constructor(t) ==
  CASE t.hbtype = AGBNP_HB_POLARH ->
         \* agbnp3_create_ws_atoms_ph, 2701-2748
         IF t.nne <= 0 THEN WsNone ELSE IF ~t.heavy THEN WsNone ELSE WsMade(1)
    [] t.hbtype = AGBNP_HB_TRIGONAL /\ t.nne = 1 ->
         \* agbnp3_create_ws_atoms_trigonal1, 2848-2931
         IF t.nne # 1 THEN WsNone
         ELSE IF t.rnne # 3 THEN WsNone
         ELSE IF ~t.rparse THEN WsNone ELSE WsMade(2)
    [] t.hbtype = AGBNP_HB_TRIGONAL /\ t.nne = 2 ->
         \* agbnp3_create_ws_atoms_trigonal2, 3641-3674
         IF t.nne # 2 THEN WsNone ELSE WsMade(1)
    [] t.hbtype = AGBNP_HB_TRIGONAL_S ->
         \* agbnp3_create_ws_atoms_trigonal_s, 3078-3205
         IF t.nne # 1 THEN WsNone
         ELSE IF t.rnne # 3 THEN WsNone
         ELSE IF ~t.rparse THEN WsNone ELSE WsMade(4)
    [] t.hbtype = AGBNP_HB_TRIGONAL_OOP ->
         \* agbnp3_create_ws_atoms_trigonal_oop, 3397-3448
         IF t.nne # 3 THEN WsNone ELSE WsMade(2)
    [] t.hbtype = AGBNP_HB_TETRAHEDRAL /\ t.nne = 2 ->
         \* agbnp3_create_ws_atoms_tetrahedral2, 3788-3837
         IF t.nne # 2 THEN WsNone ELSE WsMade(2)
    [] t.hbtype = AGBNP_HB_TETRAHEDRAL /\ t.nne = 3 ->
         \* agbnp3_create_ws_atoms_tetrahedral3, 4088-4123
         IF t.nne # 3 THEN WsNone ELSE WsMade(1)
    [] t.hbtype = AGBNP_HB_TETRAHEDRAL /\ t.nne = 1 ->
         \* agbnp3_create_ws_atoms_tetrahedral1, 4255-4351
         IF t.nne # 1 THEN WsNone
         ELSE IF t.rnne # 4 THEN WsNone
         ELSE IF ~t.rparse THEN WsNone ELSE WsMade(3)
    [] OTHER -> WsMade(0)

\* the version that the comments of agbnp3_create_ws_ofatom keep: every
\* failure of a constructor is an error
create_ws_ofatom_strict(t) == ws_constructor(t)

\* libagbnp3.c:2476-2568
\* only the out-of-plane branch returns the error of its constructor; the
\* others do  if(constructor != AGBNP_OK){ *nws = 0; }  return AGBNP_OK;
create_ws_ofatom(t) ==
  IF t.hbtype = AGBNP_HB_TRIGONAL_OOP \/ ws_constructor(t).res = AGBNP_OK
  THEN ws_constructor(t)
  ELSE WsMade(0)

\* number of sites agbnp3_create_ws_ofatom makes for an active atom
nws_ofatom(c, iat) == create_ws_ofatom(c.topo[iat]).nws

\* libagbnp3.c:2450-2455: the sites of atom iat copied to wsat[nwsat], ...
RECURSIVE cpy_wsat(_, _, _, _, _)
cpy_wsat(s, iat, call, iws, nws) ==
  IF iws >= nws THEN s
  ELSE LET e == [parent |-> iat, iseq |-> iws, call |-> call]
           to == s.nwsat + 1
       IN cpy_wsat([s EXCEPT !.wsat = IF to \in DOMAIN s.wsat
                                      THEN [s.wsat EXCEPT ![to] = e]
                                      ELSE Append(s.wsat, e),
                             !.nwsat = s.nwsat + 1],
                   iat, call, iws + 1, nws)

\* libagbnp3.c:2429-2455, one iteration of the loop; ok is the outcome of
\* the reallocation if there is one
ws_needs_realloc(c, s, iat) ==
  /\ s.error = 0
  /\ c.topo[iat].hbtype # AGBNP_HB_INACTIVE
  /\ s.wsat_size - s.nwsat < min_incr

ws_iteration(c, s, iat, ok, call) ==
  IF s.error # 0 THEN s
  ELSE IF c.topo[iat].hbtype = AGBNP_HB_INACTIVE THEN s
  ELSE IF ws_needs_realloc(c, s, iat) /\ ~ok
  THEN [s EXCEPT !.error = 1, !.alloc = FALSE, !.wsat = << >>, !.nomem = TRUE]
  ELSE LET incr == Max(c.natoms \div 10, min_incr)
           size == IF s.wsat_size - s.nwsat < min_incr
                   THEN s.wsat_size + incr ELSE s.wsat_size
           r == create_ws_ofatom(c.topo[iat])
       IN IF r.res # AGBNP_OK THEN [s EXCEPT !.wsat_size = size, !.error = 1]
          ELSE cpy_wsat([s EXCEPT !.wsat_size = size], iat, call, 0, r.nws)

\* libagbnp3.c:2428-2456, the iterations of one worker; ok is the outcome of
\* the reallocations
RECURSIVE WsRun(_, _, _, _)
WsRun(c, s, iat, ok) ==
  IF iat >= c.natoms THEN s
  ELSE WsRun(c, ws_iteration(c, s, iat, ok, neval), iat + team, ok)

\* a call that keeps the count of the call before
nwsat_kept(s) == s.nwsat

\* libagbnp3.c:2423  agbw->nwsat = 0
nwsat_reset(s) == 0

\* libagbnp3.c:2419-2468 without the barrier that ends the loop
create_wsatoms_loop(w, ok) ==
  WsRun(conf, [ws[w] EXCEPT !.nwsat = nwsat_reset(ws[w]), !.error = 0,
                            !.nomem = FALSE], w, ok)

WsLoop(w) ==
  /\ Running(w) /\ KindAt(pc[w]) = "wsloop"
  /\ LET s2 == create_wsatoms_loop(w, TRUE)
     IN /\ ws' = [ws EXCEPT ![w] = s2]
        /\ res' = [res EXCEPT ![w] = AGBNP_OK]
  /\ Goto(w, pc[w] + 1)
  /\ UNCHANGED << fr, conf, team, nlw, nl, atbar, claimed, error, spent, hung,
                  phase, neval, ret, out, pre, first, m, h, sh, g >>

\* the same with a reallocation that fails
WsLoopFail(w) ==
  /\ Running(w) /\ KindAt(pc[w]) = "wsloop"
  /\ LET s2 == create_wsatoms_loop(w, FALSE)
     IN /\ s2.error # 0
        /\ ws' = [ws EXCEPT ![w] = s2]
        /\ res' = [res EXCEPT ![w] = AGBNP_ERR]
  /\ Goto(w, pc[w] + 1)
  /\ UNCHANGED << fr, conf, team, nlw, nl, atbar, claimed, error, spent, hung,
                  phase, neval, ret, out, pre, first, m, h, sh, g >>

Waiting == {w \in Workers : atbar[w]}
Ended == {w \in Workers : AtEnd(pc[w])}

\* Some workers wait at a barrier that the others, having left through
\* ERROR, will never reach. OpenMP leaves this undefined. A runtime that
\* counts arrivals on one barrier object for the team takes the arrival of
\* the leavers at the end of the region for the missing arrivals and lets
\* the waiters go, once ...
MismatchRelease ==
  /\ phase = "par" /\ ~hung
  /\ Waiting # {} /\ Ended # {} /\ Waiting \cup Ended = Workers
  /\ spent = {}
  /\ spent' = Ended
  /\ pc' = [w \in Workers |-> IF atbar[w] THEN pc[w] + 1 ELSE pc[w]]
  /\ atbar' = [w \in Workers |-> FALSE]
  /\ UNCHANGED << fr, conf, team, nlw, nl, res, claimed, error, hung,
                  phase, neval, ret, out, pre, first, m, h, sh, ws, g >>

\* ... any other runtime, and the same runtime the next time, leaves them
\* waiting; and a team whose end-of-region arrivals were used up is never
\* joined.
TeamHangs ==
  /\ phase = "par" /\ ~hung
  /\ \/ Waiting # {} /\ Ended # {} /\ Waiting \cup Ended = Workers
     \/ Ended = Workers /\ spent # {}
  /\ hung' = TRUE
  /\ UNCHANGED << fr, conf, team, nlw, nl, pc, atbar, res, claimed, error, spent,
                  phase, neval, ret, out, pre, first, m, h, sh, ws, g >>

\* libagbnp3.c:2311-2315 and 549-551: the team is joined with error set
EnerReturnErr ==
  /\ phase = "par" /\ ~hung
  /\ Ended = Workers /\ spent = {}
  /\ error # 0
  /\ ret' = AGBNP_ERR
  /\ phase' = "idle"
  /\ UNCHANGED << fr, conf, team, nlw, nl, pc, atbar, res, claimed, error, spent,
                  hung, neval, out, pre, first, m, h, sh, ws, g >>

\* libagbnp3.c:2318-2342 and 555-582: the results go to agb and from there
\* to the caller
EnerReturnOK ==
  /\ phase = "par" /\ ~hung
  /\ Ended = Workers /\ spent = {}
  /\ error = 0
  /\ LET force == [n \in ForceNames |->
                     CASE n = "dgbdr" ->
                            [i \in AtomsOf(conf) |-> tokcalmol * m.der["dgbdr_h"][i]]
                       [] n = "dvwdr" -> m.der["dvwdr_h"]
                       [] n = "decav" -> m.der["decav_h"]
                       [] n = "dehb" -> m.der["dehb"]]
         spv == [i \in AtomsOf(conf) |->
                   IF i < conf.nheavyat THEN m.sp[i] ELSE Scale]
         o == [out EXCEPT !.ehb = m.ehb, !.br = m.br, !.sp = spv,
                          !.surf_area = m.agb_surf_area, !.force = force]
     IN /\ m' = [m EXCEPT !.agb_der = force, !.agb_sp = spv, !.agb_br = m.br]
        /\ out' = o
        /\ first' = IF first = NoResult THEN o ELSE first
  /\ ret' = AGBNP_OK
  /\ phase' = "idle"
  /\ UNCHANGED << fr, conf, team, nlw, nl, pc, atbar, res, claimed, error, spent,
                  hung, neval, pre, h, sh, ws, g >>

Init ==
  /\ fr = NoFrame
  /\ conf = MainConf
  /\ team = NWorkers
  /\ nlw = 0
  /\ nl = [w \in Workers |-> NLInit(conf)]
  /\ PipeInit

Next ==
  \/ EnerCall
  \/ \E w \in Workers : Local(w)
  \/ \E w \in Workers : Critical(w)
  \/ \E w \in Workers : Single(w)
  \/ \E w \in Workers : SingleBegin(w)
  \/ \E w \in Workers : SingleBody(w)
  \/ \E w \in Workers : Barrier(w)
  \/ BarrierRelease
  \/ \E w \in Workers : Check(w)
  \/ \E w \in Workers : NeighborLists(w)
  \/ \E w \in Workers : WsAlloc(w)
  \/ \E w \in Workers : WsAllocFail(w)
  \/ \E w \in Workers : WsLoop(w)
  \/ \E w \in Workers : WsLoopFail(w)
  \/ MismatchRelease
  \/ TeamHangs
  \/ EnerReturnErr
  \/ EnerReturnOK

Spec == Init /\ [][Next]_vars

\* --------------------------------------------------------- claims on Spec
\* The stages of the evaluation, with the first and the last instruction of
\* each; DONE is the label at the end of the region
StageNames ==
  << "RESET", "NEIGHBOR_LISTS", "SELF_VOLUMES", "SCALING_FACTORS", "BORN_RADII",
     "GB_VDW_ENERGY", "GB_DERIVS_CONST_VP", "WATER_SITES", "HB_ENERGY",
     "UV_DERIVATIVES", "VP_DERIVATIVES", "CAVITY_DERIVATIVES", "REDUCE", "DONE" >>

StageFirst ==
  << "rb_memset", "neighbor_lists", "self_volumes", "sf_add_volumep",
     "inverse_born_radii", "evdw", "gb_ders_constvp", "ws_alloc", "hb_local",
     "gb_deruv", "der_vp", "cavity_dersgb", "red_dgbdr" >>

StageLast ==
  << "rd_derh", "neighbor_lists", "sv_barrier", "sf_sync", "br_sync_brw",
     "egb", "gd_barrier", "ws_barrier", "hb_barrier", "uv_barrier",
     "vp_barrier", "cav_barrier", "red_barrier" >>

Left(w) == pc[w] = ErrPC

Started(w, k) ==
  IF k = Len(StageNames) THEN pc[w] = DonePC
  ELSE pc[w] >= Idx(StageFirst[k]) /\ ~Left(w)

Completed(w, k) == pc[w] > Idx(StageLast[k]) /\ ~Left(w)

IsTeamBarrier(k) ==
  \A w \in Workers, v \in Workers :
    Started(w, k + 1) => Completed(v, k) \/ Left(v)

\* C1 (as stated): for every pair of consecutive stages, no worker has
\* started the later stage unless every worker has completed the earlier one
\* (or has left the region through ERROR).
C1_EveryBoundary ==
  \A k \in 1 .. (Len(StageNames) - 1) : IsTeamBarrier(k)

\* The boundaries at which the code in src/ has a barrier: RESET ->
\* NEIGHBOR_LISTS (agbnp3_utils.c:647), SCALING_FACTORS -> BORN_RADII
\* (agbnp3_utils.c:544, libagbnp3.c:1976, 1988), BORN_RADII -> GB_VDW_ENERGY
\* (agbnp3_utils.c:605, libagbnp3.c:2050), GB_VDW_ENERGY -> GB_DERIVS_CONST_VP
\* (libagbnp3.c:2096), WATER_SITES -> HB_ENERGY (libagbnp3.c:2427),
\* REDUCE -> DONE (libagbnp3.c:2300)
CodeBarrierBoundaries == {1, 4, 5, 6, 8, 13}

\* C1 (amended): at the boundaries RESET -> NEIGHBOR_LISTS, SCALING_FACTORS
\* -> BORN_RADII, BORN_RADII -> GB_VDW_ENERGY, GB_VDW_ENERGY ->
\* GB_DERIVS_CONST_VP, WATER_SITES -> HB_ENERGY and REDUCE -> DONE no worker
\* has started the later stage unless every worker has completed the
\* earlier one or has left the region through ERROR.
C1_CodeBoundaries == \A k \in CodeBarrierBoundaries : IsTeamBarrier(k)

\* A worker waits at the end of RESET for one that is still resetting
C1_Witness ==
  \E w \in Workers, v \in Workers :
    /\ phase = "par"
    /\ pc[w] = Idx("rd_derh") /\ atbar[w]
    /\ pc[v] < Idx("rd_derh")

\* C2 (as stated, its safety part): no worker is waiting at a barrier of a
\* region that a teammate has already left.
C2_NoneLeftWaiting == \A w \in Workers : atbar[w] => Ended = {}

\* C3 (as stated): when the call has returned AGBNP_ERR the caller's outputs
\* are what they were when the call was made.
C3_NoPartialOutput == (phase = "idle" /\ ret = AGBNP_ERR) => out = pre

\* what the geometry alone makes of the shared arrays
NearPartners(c, i) ==
  IF i \notin HeavyOf(c) THEN {}
  ELSE {j \in HeavyOf(c) \ {i} :
          D2(c, i, j) < ((c.r[i] + c.r[j]) * AGBNP_NBOFFSET)
                        * ((c.r[i] + c.r[j]) * AGBNP_NBOFFSET)}

ExpectedAreaF(c, i) ==
  FilteredArea(4 * pi * c.r[i] * c.r[i] - 2 * Cardinality(NearPartners(c, i)))

ExpectedVolumep(c, i) ==
  SurfaceCorrected(c, i, vols(c, i) - Cardinality(NearPartners(c, i)),
                   ExpectedAreaF(c, i))

\* C5: in SCALING_FACTORS the filter runs, and any worker reads the shared
\* volumes and areas, only when every worker has added its partial volumes
\* and areas; the shared volumes are overwritten only when every worker has
\* read them; and the values they end with are those the geometry fixes,
\* whatever the interleaving.
C5_ScalingFactorsOrdered ==
  /\ "sf_filter" \in claimed => g.sfAdded = Workers
  /\ g.sfRead # {} => g.sfAdded = Workers
  /\ "sf_sync" \in claimed =>
       /\ g.sfRead = Workers
       /\ \A i \in HeavyOf(conf) :
            /\ m.volumep[i] = ExpectedVolumep(conf, i)
            /\ m.surf_area_f[i] = ExpectedAreaF(conf, i)
            /\ m.sp[i] = (ExpectedVolumep(conf, i) * Scale) \div vols(conf, i)

\* SCALING_FACTORS has run to its end, with overlapping atoms
C5_Witness ==
  /\ "sf_sync" \in claimed
  /\ g.sfRead = Workers
  /\ \E i \in HeavyOf(conf) : m.volumep[i] < vols(conf, i)

ExpectedBr1(c, i) ==
  swf_invbr(Scale \div (c.r[i] - AGBNP_RADIUS_INCREMENT)
            - SumOver([j \in AtomsOf(c) |->
                         IF j \in NearPartners(c, i) THEN Kernel(c, i, j) ELSE 0],
                      AtomsOf(c))).f

\* C6: in BORN_RADII a worker computes the filtered radii only when every
\* worker has added its partial sums, each exactly once; the shared arrays
\* are overwritten only when every worker has read the aggregate; the
\* filtered inverse radius is the one the geometry fixes.
C6_BornRadiiOrdered ==
  /\ \A w \in Workers : g.brAdds[w] <= 1
  /\ g.brRead # {} => \A w \in Workers : g.brAdds[w] = 1
  /\ claimed \cap {"br_sync_br1", "br_sync_br", "br_sync_br1_swf_der",
                   "br_sync_brw"} # {} => g.brRead = Workers
  /\ "br_sync_br1" \in claimed =>
       \A i \in AtomsOf(conf) : m.br1[i] = ExpectedBr1(conf, i)

\* BORN_RADII has run to its end, with a pair that lowers a radius
C6_Witness ==
  /\ "br_sync_brw" \in claimed /\ "br_sync_br1" \in claimed
  /\ g.brRead = Workers
  /\ \E i \in AtomsOf(conf) :
       m.br1[i] < Scale \div (conf.r[i] - AGBNP_RADIUS_INCREMENT)

Mover(w) == pc'[w] # pc[w] \/ atbar'[w] # atbar[w]

\* C7: inside the parallel region, a step that changes a master array, a
\* shared total or counter of agbnp3_total_energy, or an energy of the
\* caller is the body of a critical or of a single, run by one worker.
C7_SharedWritesProtected ==
  [][ (phase = "par" /\ phase' = "par" /\ (m' # m \/ sh' # sh \/ out' # out))
        => \E w \in Workers :
             /\ Mover(w)
             /\ KindAt(pc[w]) \in {"critical", "single", "sbody"}
             /\ \A v \in Workers \ {w} : ~Mover(v) ]_vars

\* the derivative reduction has added a worker's forces to the master
C7_Witness ==
  /\ phase = "par"
  /\ \E w \in Workers : pc[w] > Idx("red_dgbdr") /\ ~Left(w)
  /\ m.der["dgbdr_h"] # Zero(conf)

PastNL(w) == pc[w] > Idx("neighbor_lists")

ListsOf(w) ==
  [nne |-> nl[w].nne, neighl |-> nl[w].neighl, neighl1 |-> nl[w].neighl1,
   size |-> nl[w].size, blk |-> nl[w].blk, far_nne |-> nl[w].far_nne,
   q4blk |-> nl[w].q4blk, nq4cache |-> nl[w].nq4cache]

\* C8 (as stated): once a worker is past NEIGHBOR_LISTS, no step changes its
\* neighbor lists, the storage of its kernel cache or an entry of the cache.
C8_NothingMutated ==
  [][ \A w \in Workers :
        PastNL(w) => /\ ListsOf(w)' = ListsOf(w)
                     /\ h'[w].q4cache = h[w].q4cache ]_vars

\* C8 (amended): once a worker is past NEIGHBOR_LISTS, no step changes its
\* neighbor lists or the storage of its kernel cache, and the entries of the
\* cache are written by the forward pass of BORN_RADII only.
C8_ListsAndStorageFrozen ==
  [][ \A w \in Workers :
        PastNL(w) => /\ ListsOf(w)' = ListsOf(w)
                     /\ h'[w].q4cache # h[w].q4cache
                          => pc[w] = Idx("inverse_born_radii") ]_vars

\* a worker is past the forward pass with kernel values in its cache
C8_Witness ==
  \E w \in Workers :
    /\ phase = "par"
    /\ pc[w] > Idx("inverse_born_radii") /\ ~Left(w)
    /\ Len(h[w].q4cache) > 0
    /\ nl[w].nq4cache >= Len(h[w].q4cache)

\* C9 (as stated): the second successful evaluation of the same coordinates
\* returns what the first returned.
C9_SameResultTwice ==
  (phase = "idle" /\ neval >= 2 /\ ret = AGBNP_OK /\ first # NoResult)
    => out = first

\* ---------------------------------------------------------------- SpecNL
InitNL ==
  /\ fr = NoFrame
  /\ conf \in Configs
  /\ team \in 1 .. NWorkers
  /\ nlw \in 0 .. (team - 1)
  /\ nl = [w \in Workers |-> NLInit(conf)]
  /\ PipeInit

\* A statement that allocates nothing
NLPlainStep ==
  /\ nl[nlw].pc # "done"
  /\ ~NLAllocates(conf, nl[nlw])
  /\ nl' = [nl EXCEPT ![nlw] = NLStep(conf, nl[nlw], nlw, team, TRUE, FALSE)]
  /\ UNCHANGED << fr, conf, team, nlw, pipevars >>

\* A statement whose allocation succeeds, in place or moving the block
NLAllocStep ==
  /\ NLAllocates(conf, nl[nlw])
  /\ \E moved \in BOOLEAN :
       nl' = [nl EXCEPT ![nlw] = NLStep(conf, nl[nlw], nlw, team, TRUE, moved)]
  /\ UNCHANGED << fr, conf, team, nlw, pipevars >>

\* A statement whose allocation fails
NLAllocFailStep ==
  /\ NLAllocates(conf, nl[nlw])
  /\ nl[nlw].nfailed < MaxAllocFail
  /\ nl' = [nl EXCEPT ![nlw] = NLStep(conf, nl[nlw], nlw, team, FALSE, FALSE)]
  /\ UNCHANGED << fr, conf, team, nlw, pipevars >>

NextNL == NLPlainStep \/ NLAllocStep \/ NLAllocFailStep

SpecNL == InitNL /\ [][NextNL]_vars

\* ------------------------------------------------------- claims on SpecNL
NLDoneOK(s) == s.pc = "done" /\ s.res = AGBNP_OK

\* The atoms whose list worker w of t builds
OwnedBy(c, w, t) == {i \in HeavyOf(c) : i % t = w}

\* What near_nl records for atom i: the nne[i] entries from neighl[i]
NearListOf(s, i) ==
  [k \in 1 .. s.nne[i] |-> s.neighl1[s.neighl[i].off + k - 1]]

SeqRange(q) == {q[k] : k \in DOMAIN q}

\* C4 (as stated): within one pass, no growth of the near-list storage is
\* attempted after an attempt has failed.
C4_NotRetried == ~nl[nlw].retried

q4frame == << fr, conf, team, nlw, nl, pc, atbar, res, claimed, error, spent,
              hung, phase, neval, ret, out, pre, first, m, sh, ws >>

\* agbnp3_total_energy calls the forward pass once, after the lists are built
Q4Fill ==
  /\ NLDoneOK(nl[nlw])
  /\ g.q4fills[nlw] = 0
  /\ h' = inverse_born_radii(nlw).h
  /\ g' = inverse_born_radii(nlw).g
  /\ UNCHANGED q4frame

\* q = q4cache[iq4cache++]; iq4cache += 1; deru[..] += ..*q
Q4Read ==
  /\ g.q4fills[nlw] = 1
  /\ Len(g.q4reads[nlw]) < deruv_nreads(nlw)
  /\ g' = [g EXCEPT !.q4reads[nlw] = Append(@, h[nlw].iq4cache)]
  /\ h' = [h EXCEPT ![nlw].iq4cache = q4_next(@),
                    ![nlw].der["deru"] =
                       [i \in AtomsOf(conf) |->
                          h[nlw].der["deru"][i] +
                          IF i \in Mine(nlw)
                          THEN q4_fetch(h[nlw].q4cache, h[nlw].iq4cache)
                          ELSE 0]]
  /\ UNCHANGED q4frame

NextQ4 == NLPlainStep \/ NLAllocStep \/ NLAllocFailStep \/ Q4Fill \/ Q4Read

SpecQ4 == InitNL /\ [][NextQ4]_vars

\* The kernel value that the a-th read of a pass over worker w's lists is
\* for: reads 2k-1 and 2k belong to the k-th listed pair (i, j), the first
\* to the kernel of (i, j), the second to the kernel of (j, i)
q4_expected(w, a) ==
  LET ps == PairSeq(w)
      k == (a + 1) \div 2
  IN IF a % 2 = 1 THEN Kernel(conf, ps[k][1], ps[k][2])
     ELSE Kernel(conf, ps[k][2], ps[k][1])

InitWS ==
  /\ fr = NoFrame
  /\ conf \in WsConfigs
  /\ team \in 1 .. NWorkers
  /\ nlw \in 0 .. (team - 1)
  /\ nl = [w \in Workers |-> NLInit(conf)]
  /\ PipeInit

wsframe == << fr, conf, team, nlw, nl, pc, atbar, res, claimed, error, spent,
              hung, phase, neval, ret, out, pre, first, m, h, sh, g >>

\* libagbnp3.c:2402-2425 when the list exists or calloc succeeds
WSEnter ==
  /\ ws[nlw].at = "idle"
  /\ ws[nlw].ncalls < MaxWsCalls
  /\ LET s == ws[nlw]
         s1 == IF s.alloc THEN s
               ELSE [s EXCEPT !.alloc = TRUE, !.wsat = << >>,
                              !.wsat_size = conf.nheavyat]
     IN ws' = [ws EXCEPT ![nlw] =
                 [s1 EXCEPT !.nwsat = nwsat_reset(s1), !.error = 0,
                            !.nomem = FALSE, !.iat = nlw, !.at = "loop"]]
  /\ UNCHANGED wsframe

\* libagbnp3.c:2412-2415: calloc fails
WSEnterFail ==
  /\ ws[nlw].at = "idle"
  /\ ws[nlw].ncalls < MaxWsCalls
  /\ ~ws[nlw].alloc
  /\ ws' = [ws EXCEPT ![nlw].ret = AGBNP_ERR, ![nlw].nomem = TRUE,
                      ![nlw].ncalls = @ + 1]
  /\ UNCHANGED wsframe

\* libagbnp3.c:2428-2456: the next iteration of the worker
WSIter ==
  /\ ws[nlw].at = "loop"
  /\ ws[nlw].iat < conf.natoms
  /\ ws' = [ws EXCEPT ![nlw] =
              [ws_iteration(conf, ws[nlw], ws[nlw].iat, TRUE,
                            ws[nlw].ncalls + 1)
                 EXCEPT !.iat = @ + team]]
  /\ UNCHANGED wsframe

\* libagbnp3.c:2433-2438: the same when realloc fails
WSIterFail ==
  /\ ws[nlw].at = "loop"
  /\ ws[nlw].iat < conf.natoms
  /\ ws_needs_realloc(conf, ws[nlw], ws[nlw].iat)
  /\ ws' = [ws EXCEPT ![nlw] =
              [ws_iteration(conf, ws[nlw], ws[nlw].iat, FALSE,
                            ws[nlw].ncalls + 1)
                 EXCEPT !.iat = @ + team]]
  /\ UNCHANGED wsframe

\* libagbnp3.c:2464-2468
WSReturn ==
  /\ ws[nlw].at = "loop"
  /\ ws[nlw].iat >= conf.natoms
  /\ ws' = [ws EXCEPT ![nlw].ret = IF ws[nlw].error # 0 THEN AGBNP_ERR
                                   ELSE AGBNP_OK,
                      ![nlw].ncalls = @ + 1, ![nlw].at = "idle"]
  /\ UNCHANGED wsframe

NextWS == WSEnter \/ WSEnterFail \/ WSIter \/ WSIterFail \/ WSReturn

SpecWS == InitWS /\ [][NextWS]_vars

\* The atoms whose sites the worker builds
WsOwned == {i \in AtomsOf(conf) : i % team = nlw}

\* The counted entries of the list that belong to atom i
SitesOf(s, i) == {k \in 1 .. s.nwsat : s.wsat[k].parent = i}

WsCallDone(s) == s.at = "idle" /\ s.ncalls >= 1

\* The number of sites of an atom whose connectivity is the one its class
\* expects; 0 when it is not
ExpectedSites(t) ==
  CASE t.hbtype = AGBNP_HB_POLARH /\ t.nne >= 1 /\ t.heavy -> 1
    [] t.hbtype = AGBNP_HB_TRIGONAL /\ t.nne = 1 /\ t.rnne = 3 /\ t.rparse -> 2
    [] t.hbtype = AGBNP_HB_TRIGONAL /\ t.nne = 2 -> 1
    [] t.hbtype = AGBNP_HB_TRIGONAL_S /\ t.nne = 1 /\ t.rnne = 3 /\ t.rparse -> 4
    [] t.hbtype = AGBNP_HB_TRIGONAL_OOP /\ t.nne = 3 -> 2
    [] t.hbtype = AGBNP_HB_TETRAHEDRAL /\ t.nne = 1 /\ t.rnne = 4 /\ t.rparse -> 3
    [] t.hbtype = AGBNP_HB_TETRAHEDRAL /\ t.nne = 2 -> 2
    [] t.hbtype = AGBNP_HB_TETRAHEDRAL /\ t.nne = 3 -> 1
    [] OTHER -> 0

Unexpected(i) == i \in HbActive(conf) /\ ExpectedSites(conf.topo[i]) = 0

\* C14: when the construction of the water sites of an hb-active atom finds
\* a connectivity its class does not expect, the atom contributes no site
\* and the call goes on to the other atoms and returns AGBNP_OK, except for
\* the trigonal out-of-plane class, where it makes the call return AGBNP_ERR
\* (calls in which an allocation failed aside).
C14_UnexpectedTopologyForgiven ==
  LET s == ws[nlw]
      oop == {i \in WsOwned : Unexpected(i)
                /\ conf.topo[i].hbtype = AGBNP_HB_TRIGONAL_OOP}
  IN (WsCallDone(s) /\ ~s.nomem) =>
       IF oop = {}
       THEN /\ s.ret = AGBNP_OK
            /\ \A i \in WsOwned :
                 /\ Unexpected(i) => SitesOf(s, i) = {}
                 /\ (i \in HbActive(conf) /\ ~Unexpected(i))
                      => SitesOf(s, i) # {}
       ELSE s.ret = AGBNP_ERR

\* A call that met an unexpected connectivity, returned AGBNP_OK and built
\* the sites of an atom after it
C14_Witness ==
  LET s == ws[nlw]
  IN /\ WsCallDone(s) /\ ~s.nomem /\ s.ret = AGBNP_OK
     /\ \E i \in WsOwned : \E j \in WsOwned :
          /\ i < j
          /\ Unexpected(i)
          /\ SitesOf(s, i) = {}
          /\ SitesOf(s, j) # {}

\* C15 (as stated): after a call that succeeded every counted site is of
\* that call and every hb-active atom has between one and four sites.
C15_OneToFour ==
  LET s == ws[nlw]
  IN (WsCallDone(s) /\ s.ret = AGBNP_OK) =>
       /\ \A k \in 1 .. s.nwsat : s.wsat[k].call = s.ncalls
       /\ \A i \in WsOwned \cap HbActive(conf) :
            Cardinality(SitesOf(s, i)) \in 1 .. 4

\* C15 (amended): after a call that succeeded the counted list holds only
\* sites of that call, in the order of the atoms; an hb-active atom has as
\* many as its class and number of bonded atoms fix, between one and four,
\* or none when its connectivity is not the one expected; an inactive atom
\* has none; the count never exceeds the storage.
C15_RebuiltFromEmpty ==
  LET s == ws[nlw]
  IN (WsCallDone(s) /\ s.ret = AGBNP_OK) =>
       /\ s.nwsat <= s.wsat_size
       /\ \A k \in 1 .. s.nwsat :
            /\ s.wsat[k].call = s.ncalls
            /\ s.wsat[k].parent \in WsOwned \cap HbActive(conf)
       /\ \A k \in 1 .. s.nwsat : \A l \in 1 .. s.nwsat :
            k < l => s.wsat[k].parent <= s.wsat[l].parent
       /\ \A i \in WsOwned :
            /\ Cardinality(SitesOf(s, i)) = ExpectedSites(conf.topo[i])
            /\ Cardinality(SitesOf(s, i)) \in 0 .. 4
            /\ {s.wsat[k].iseq : k \in SitesOf(s, i)}
                 = 0 .. (ExpectedSites(conf.topo[i]) - 1)

\* The second call succeeded after a first that had counted sites, and
\* two atoms of different counts have theirs
C15_Witness ==
  LET s == ws[nlw]
  IN /\ WsCallDone(s) /\ s.ret = AGBNP_OK /\ s.ncalls = 2
     /\ \E i \in WsOwned : \E j \in WsOwned :
          /\ Cardinality(SitesOf(s, i)) = 4
          /\ Cardinality(SitesOf(s, j)) = 1

\* --------------------------------------------------------------- SpecFV
\* agbnp3_ws_free_volume_of1 (libagbnp3.c:4456-4641) on one water site with
\* nn gathered neighbours, statement by statement. The neighbours are
\* nlist[0 .. nn-1]; a chain is the sequence of neighbours on the stack,
\* and ov is the set of chains whose Gaussian overlap with the site is
\* above FLT_MIN.
pipeframe == << conf, team, nlw, nl, pc, atbar, res, claimed, error, spent,
                hung, phase, neval, ret, out, pre, first, m, h, sh, ws, g >>

\* The state that a function followed on its own leaves alone
InitIdle ==
  /\ conf = MainConf
  /\ team = 1
  /\ nlw = 0
  /\ nl = [w \in Workers |-> NLInit(conf)]
  /\ PipeInit

\* The increasing sequence of the members of a set of neighbour indices
ChainOf(S) ==
  CHOOSE q \in [1 .. Cardinality(S) -> S] :
    \A a \in DOMAIN q : \A b \in DOMAIN q : a < b => q[a] < q[b]

Chains(nn) == {ChainOf(S) : S \in (SUBSET (0 .. (nn - 1))) \ {{}}}

\* The overlap volume of a chain that overlaps: one value per chain
RECURSIVE GVol(_, _)
GVol(q, nn) ==
  IF q = << >> THEN 0
  ELSE (q[1] + 1) + (nn + 1) * GVol(Tail(q), nn)

\* What an array element holds before it is written
Junk == {-1, 0, 7}

FvFrames ==
  UNION { { [fn |-> "ws_free_volume_of1", at |-> "entry", nn |-> n, ov |-> o,
             junk |-> j] : o \in SUBSET Chains(n), j \in Junk }
          : n \in 0 .. MaxNeigh }

\* an acceptance test that lets the deepest level grow
fv_accept_deepest(gvol, order) ==
  gvol > 0 /\ order <= AGBNP_MAX_OVERLAP_LEVEL

\* libagbnp3.c:4613  altw*gvol > FLT_MIN && order < AGBNP_MAX_OVERLAP_LEVEL
fv_accept(gvol, order) ==
  gvol > 0 /\ order < AGBNP_MAX_OVERLAP_LEVEL

\* coefficients that all add
volpcoeff_plus(order) == 1

\* libagbnp3.c:4498-4502: sign = 1; volpcoeff[order-1] = sign; sign *= -1
RECURSIVE volpcoeff(_)
volpcoeff(order) == IF order <= 1 THEN 1 ELSE (-1) * volpcoeff(order - 1)

\* an index of the arrays of AGBNP_MAX_OVERLAP_LEVEL elements
fv_inb(k) == k \in 0 .. (AGBNP_MAX_OVERLAP_LEVEL - 1)

\* an access outside an array: what follows is undefined
fv_outside == [fr EXCEPT !.oob = TRUE, !.at = "undefined"]

\* a deeper level that starts again at the neighbour of the level above
fv_push_same(j) == j

\* libagbnp3.c:4617-4621: gnlist[order-1] = gnlist[order-2]+1
fv_push_start(j) == j + 1

\* libagbnp3.c:4497-4584, and the first test of the while of 4586
FVEnter ==
  /\ fr.fn = "ws_free_volume_of1" /\ fr.at = "entry"
  /\ fr' = [fn |-> fr.fn, nn |-> fr.nn, ov |-> fr.ov, junk |-> fr.junk,
            at |-> IF fr.nn # 0 THEN "outer" ELSE "exit",
            order |-> 2,
            gnlist |-> [k \in 0 .. (AGBNP_MAX_OVERLAP_LEVEL - 1) |->
                          IF k = 1 THEN 0 ELSE fr.junk],
            gatlist |-> [k \in 0 .. (AGBNP_MAX_OVERLAP_LEVEL - 1) |->
                           IF k = 0 THEN 0 ELSE fr.junk],
            free_volume |-> Scale,
            terms |-> << [order |-> 1, coeff |-> 1, chain |-> << >>] >>,
            evals |-> << >>,
            oob |-> FALSE, dropped |-> FALSE, maxorder |-> 2]
  /\ UNCHANGED pipeframe

\* libagbnp3.c:4588-4625: one overlap computed, then accepted or passed over
FVIter ==
  /\ fr.fn = "ws_free_volume_of1" /\ fr.at = "outer"
  /\ LET o == fr.order
     IN IF ~(fv_inb(o - 1) /\ fv_inb(o - 2)) THEN fr' = fv_outside
        ELSE LET j == fr.gnlist[o - 1]
             IN IF j \notin 0 .. (fr.nn - 1) THEN fr' = fv_outside
                ELSE LET gat == [fr.gatlist EXCEPT ![o - 1] = j]
                         chain == [k \in 1 .. (o - 1) |-> gat[k]]
                         gvol == IF chain \in fr.ov THEN GVol(chain, fr.nn)
                                 ELSE 0
                     IN IF fv_accept(gvol, o)
                        THEN IF ~fv_inb(o) THEN fr' = fv_outside
                             ELSE fr' =
                               [fr EXCEPT
                                  !.gatlist = gat,
                                  !.free_volume = @ + volpcoeff(o) * gvol,
                                  !.terms = Append(@, [order |-> o,
                                                       coeff |-> volpcoeff(o),
                                                       chain |-> chain]),
                                  !.evals = Append(@, chain),
                                  !.order = o + 1,
                                  !.maxorder = Max(@, o + 1),
                                  !.gnlist = [@ EXCEPT ![o] = fv_push_start(j)],
                                  !.at = "inner"]
                        ELSE fr' = [fr EXCEPT
                                      !.gatlist = gat,
                                      !.evals = Append(@, chain),
                                      !.gnlist = [@ EXCEPT ![o - 1] = j + 1],
                                      !.dropped = @ \/ gvol > 0,
                                      !.at = "inner"]
  /\ UNCHANGED pipeframe

\* libagbnp3.c:4632-4635: no neighbour left at this level
FVPop ==
  /\ fr.fn = "ws_free_volume_of1" /\ fr.at = "inner"
  /\ fr.order > 1
  /\ fv_inb(fr.order - 1)
  /\ fr.gnlist[fr.order - 1] >= fr.nn
  /\ fr' = [fr EXCEPT !.order = @ - 1,
                      !.gnlist = [@ EXCEPT ![fr.order - 2] = @ + 1]]
  /\ UNCHANGED pipeframe

\* the inner while ends; the test of the outer while
FVLoop ==
  /\ fr.fn = "ws_free_volume_of1" /\ fr.at = "inner"
  /\ ~(fr.order > 1 /\ fv_inb(fr.order - 1)
         /\ fr.gnlist[fr.order - 1] >= fr.nn)
  /\ fr' = [fr EXCEPT !.at = IF fr.nn # 0 /\ fr.order > 1 THEN "outer"
                             ELSE "exit"]
  /\ UNCHANGED pipeframe

\* libagbnp3.c:4638-4640
FVReturn ==
  /\ fr.fn = "ws_free_volume_of1" /\ fr.at = "exit"
  /\ fr' = [fr EXCEPT !.at = "done"]
  /\ UNCHANGED pipeframe

NextFV == FVEnter \/ FVIter \/ FVPop \/ FVLoop \/ FVReturn

InitFV == InitIdle /\ fr \in FvFrames

SpecFV == InitFV /\ [][NextFV]_vars

FvStarted == fr.fn = "ws_free_volume_of1" /\ fr.at # "entry"

\* The chains that the traversal accepts: every prefix overlaps and is of
\* an order below the maximum (the order of a chain of k neighbours is k+1)
AcceptedChains ==
  {q \in Chains(fr.nn) :
     \A k \in 1 .. Len(q) :
       SubSeq(q, 1, k) \in fr.ov /\ k + 1 < AGBNP_MAX_OVERLAP_LEVEL}

RECURSIVE SumSet(_, _)
SumSet(f, S) ==
  IF S = {} THEN 0
  ELSE LET e == CHOOSE e \in S : TRUE IN f[e] + SumSet(f, S \ {e})

InclusionExclusion ==
  Scale + SumSet([q \in AcceptedChains |->
                    IF (Len(q) + 1) % 2 = 1 THEN GVol(q, fr.nn)
                    ELSE 0 - GVol(q, fr.nn)], AcceptedChains)

SpecFVLive == SpecFV /\ WF_vars(NextFV)

\* the chain q is strictly increasing over the neighbour indices
IsChain(q) ==
  /\ Len(q) >= 1
  /\ \A a \in DOMAIN q : q[a] \in 0 .. (fr.nn - 1)
  /\ \A a \in DOMAIN q : \A b \in DOMAIN q : a < b => q[a] < q[b]

\* every chain evaluated so far is strictly increasing, is evaluated once,
\* and follows the evaluation of its immediate prefix, which passed the
\* threshold test at an order below the maximum
EvaluatedOnce ==
  FvStarted =>
    \A k \in DOMAIN fr.evals :
       LET q == fr.evals[k]
       IN /\ IsChain(q)
          /\ \A l \in DOMAIN fr.evals : fr.evals[l] = q => l = k
          /\ Len(q) > 1 =>
               LET prefix == SubSeq(q, 1, Len(q) - 1)
               IN /\ \E l \in 1 .. (k - 1) : fr.evals[l] = prefix
                  /\ prefix \in fr.ov
                  /\ Len(prefix) + 1 < AGBNP_MAX_OVERLAP_LEVEL

RECURSIVE doubled(_, _)
doubled(sz, l) == IF sz < l THEN doubled(2 * sz, l) ELSE sz

two2n_size(mm) == IF mm <= 0 THEN 0 ELSE doubled(1, 2 * mm)

\* key = b * nkey with b = (radii[i] - c) / radii[j], truncated
ratio_key(ri, rj) == ((ri - AGBNP_RADIUS_INCREMENT) * nkey) \div rj

\* agbnp3_h_create and agbnp3_h_init, agbnp3_utils.c:666-701
h_create(size, jump) ==
  [hsize |-> size, hmask |-> size - 1, hjump |-> jump,
   key |-> [k \in 0 .. (size - 1) |-> -1]]

\* a probe that passes over every taken slot
h_taken_any(ht, k, keyij) == ht.key[k] >= 0

\* agbnp3_utils.c:715  key[k] >= 0 && key[k] != keyij
h_taken(ht, k, keyij) == ht.key[k] >= 0 /\ ht.key[k] # keyij

\* agbnp3_utils.c:714-719: the slot where the probe sequence of keyij stops,
\* -2 when it never stops; hsize is a power of two, so & hmask is % hsize
RECURSIVE h_enter_probe(_, _, _, _)
h_enter_probe(ht, keyij, k, fuel) ==
  IF fuel = 0 THEN -2
  ELSE IF h_taken(ht, k, keyij)
       THEN h_enter_probe(ht, keyij, (k + ht.hjump) % ht.hsize, fuel - 1)
       ELSE k

agbnp3_h_enter(ht, keyij) ==
  h_enter_probe(ht, keyij, keyij % ht.hsize, ht.hsize + 1)

\* agbnp3_utils.c:733-738
RECURSIVE h_find_probe(_, _, _, _)
h_find_probe(ht, keyij, k, fuel) ==
  IF fuel = 0 THEN -2
  ELSE IF ht.key[k] >= 0 /\ ht.key[k] # keyij
       THEN h_find_probe(ht, keyij, (k + ht.hjump) % ht.hsize, fuel - 1)
       ELSE IF ht.key[k] < 0 THEN -1 ELSE k

agbnp3_h_find(ht, keyij) ==
  h_find_probe(ht, keyij, keyij % ht.hsize, ht.hsize + 1)

\* The radius types of a system: agbnp3_list_radius_types,
\* agbnp3_utils.c:748-776, lists each radius once. A radius is an input
\* radius, at least 1 here, plus AGBNP_RADIUS_INCREMENT (libagbnp3.c:189).
TabRadii == (1 + AGBNP_RADIUS_INCREMENT) .. (MaxRadius + AGBNP_RADIUS_INCREMENT)

TabTypes ==
  UNION { { q \in [0 .. (n - 1) -> TabRadii] :
              \A a \in 0 .. (n - 1) : \A b \in 0 .. (n - 1) :
                a # b => q[a] # q[b] }
          : n \in 1 .. MaxTypes }

\* agbnp3_create_ctablef4, agbnp3_utils.c:313-356: the table built for a
\* ratio, n nodes dx apart, y[n-1] = yinf = 0; the other ordinates and the
\* second derivatives differ from table to table and from node to node
agbnp3_create_ctablef4(n, key) ==
  [n |-> n, dx |-> TabDx, key |-> key,
   y |-> [k \in 0 .. (n - 1) |->
            IF k = n - 1 THEN 0 ELSE (key \div 1000) + k + 1],
   y2 |-> [k \in 0 .. (n - 1) |-> (key % 3) - k]]

NoTable == [n |-> 0]

\* What the read of element k of an array gives: outside the array, anything
node(arr, k) == IF k \in DOMAIN arr THEN arr[k] ELSE 7

\* a test that lets the last node through
cs_outside_late(k, n) == k > n - 1

\* agbnp3_utils.c:170  k > n-2
cs_outside(k, n) == k > n - 2

\* agbnp3_utils.c:159-182. f and fp are returned as multiples of 1/(6 dx):
\* with a = an/dx and b = bn/dx,
\*   6 dx f  = 6 (an y[k] + bn y[k+1])
\*             + (an^3 - an dx^2) y2[k] + (bn^3 - bn dx^2) y2[k+1]
\*   6 dx fp = 6 (y[k+1] - y[k])
\*             - ((3 an^2 - dx^2) y2[k] + (3 bn^2 - dx^2) y2[k+1])
agbnp3_cspline_interpolate(x, dx, n, y, y2) ==
  LET k == x \div dx
  IN IF cs_outside(k, n) THEN [f |-> 0, fp |-> 0, k |-> k, reads |-> {}]
     ELSE LET an == (k + 1) * dx - x
              bn == x - k * dx
          IN [f |-> 6 * (an * node(y, k) + bn * node(y, k + 1))
                    + (an * an * an - an * dx * dx) * node(y2, k)
                    + (bn * bn * bn - bn * dx * dx) * node(y2, k + 1),
              fp |-> 6 * (node(y, k + 1) - node(y, k))
                     - ((3 * an * an - dx * dx) * node(y2, k)
                        + (3 * bn * bn - dx * dx) * node(y2, k + 1)),
              k |-> k, reads |-> {k, k + 1}]

\* What a lookup that finds no table leaves in f and fp
Wild == [f |-> 7, fp |-> 7, k |-> -1, reads |-> {-1}, iy |-> -1]

\* libagbnp3.c:4704-4718 with agbnp3_interpolate_ctable,
\* agbnp3_utils.c:359-369
agbnp3_interpolate_ctablef42d(t2d, x, ri, rj) ==
  LET iy == agbnp3_h_find(t2d.y2i, ratio_key(ri, rj))
  IN IF iy < 0 \/ t2d.table[iy] = NoTable THEN Wild
     ELSE LET table1 == t2d.table[iy]
              r == agbnp3_cspline_interpolate(x, table1.dx, table1.n,
                                              table1.y, table1.y2)
          IN [f |-> r.f, fp |-> r.fp, k |-> r.k, reads |-> r.reads, iy |-> iy]

\* a gather that takes the last interval for a distance beyond the table
soa_gather_clamped(table1, k) ==
  LET kk == IF k > table1.n - 2 THEN table1.n - 2 ELSE k
  IN [y |-> table1.y[kk], yp |-> table1.y[kk + 1],
      y2 |-> table1.y2[kk], y2p |-> table1.y2[kk + 1], reads |-> {kk, kk + 1}]

\* agbnp3_utils.c:284-294
soa_gather(table1, k) ==
  IF k > table1.n - 2
  THEN [y |-> 0, yp |-> 0, y2 |-> 0, y2p |-> 0, reads |-> {}]
  ELSE [y |-> node(table1.y, k), yp |-> node(table1.y, k + 1),
        y2 |-> node(table1.y2, k), y2p |-> node(table1.y2, k + 1),
        reads |-> {k, k + 1}]

\* agbnp3_utils.c:196-225, element i: kf = kv[i], xh[i] = x/dx
cspline_interpolate_soa1(kf, x, dx, yp, y, y2p, y2) ==
  LET an == (kf + 1) * dx - x
      bn == x - kf * dx
  IN [f |-> 6 * (an * y + bn * yp)
            + (an * an * an - an * dx * dx) * y2
            + (bn * bn * bn - bn * dx * dx) * y2p,
      fp |-> 6 * (yp - y)
             - ((3 * an * an - dx * dx) * y2 + (3 * bn * bn - dx * dx) * y2p)]

\* agbnp3_utils.c:261-310: the tables are found and the nodes gathered
\* element by element, then agbnp3_cspline_interpolate_soa is applied to the
\* batch with the dx of the table of the last element
agbnp3_interpolate_ctablef42d_soa(t2d, batch) ==
  LET iy(i) == agbnp3_h_find(t2d.y2i, ratio_key(batch[i].ri, batch[i].rj))
      found(i) == iy(i) >= 0 /\ t2d.table[iy(i)] # NoTable
      dxlast == IF found(Len(batch)) THEN t2d.table[iy(Len(batch))].dx ELSE 7
  IN [i \in DOMAIN batch |->
        IF ~found(i) THEN Wild
        ELSE LET table1 == t2d.table[iy(i)]
                 k == batch[i].x \div table1.dx
                 gt == soa_gather(table1, k)
                 r == cspline_interpolate_soa1(k, batch[i].x, dxlast, gt.yp,
                                               gt.y, gt.y2p, gt.y2)
             IN [f |-> r.f, fp |-> r.fp, k |-> k, reads |-> gt.reads,
                 iy |-> iy(i)]]

TabBatches ==
  UNION { [1 .. mm -> [x : 0 .. MaxX, i : 0 .. (MaxTypes - 1),
                       j : 0 .. (MaxTypes - 1)]] : mm \in 1 .. MaxBatch }

\* agbnp3_utils.c:790-803
TabCreate ==
  /\ fr.fn = "ctablef42d" /\ fr.at = "entry"
  /\ LET ntypes == Cardinality(DOMAIN fr.radii)
         size == two2n_size(ntypes * ntypes)
     IN fr' = [fn |-> fr.fn, radii |-> fr.radii, at |-> "loop",
               ntypes |-> ntypes, i |-> 0, j |-> 0,
               t2d |-> [y2i |-> h_create(size, 1),
                        table |-> [k \in 0 .. (size - 1) |-> NoTable]],
               entered |-> << >>, batch |-> << >>, soa |-> << >>,
               scalar |-> << >>]
  /\ UNCHANGED pipeframe

\* agbnp3_utils.c:806-819, one combination of radii
TabEnter ==
  /\ fr.fn = "ctablef42d" /\ fr.at = "loop"
  /\ fr.i < fr.ntypes
  /\ LET key == ratio_key(fr.radii[fr.i], fr.radii[fr.j])
         slot == agbnp3_h_enter(fr.t2d.y2i, key)
         last == fr.j + 1 >= fr.ntypes
     IN /\ slot >= 0
        /\ fr' = [fr EXCEPT
                    !.t2d.y2i.key[slot] = key,
                    !.t2d.table[slot] = agbnp3_create_ctablef4(MaxNodes, key),
                    !.entered = Append(@, [i |-> fr.i, j |-> fr.j,
                                           key |-> key, slot |-> slot]),
                    !.j = IF last THEN 0 ELSE fr.j + 1,
                    !.i = IF last THEN fr.i + 1 ELSE fr.i]
  /\ UNCHANGED pipeframe

\* agbnp3_utils.c:821-823
TabBuilt ==
  /\ fr.fn = "ctablef42d" /\ fr.at = "loop"
  /\ fr.i >= fr.ntypes
  /\ fr' = [fr EXCEPT !.at = "built"]
  /\ UNCHANGED pipeframe

\* agbnp3_interpolate_ctablef42d_soa on a batch of distances and pairs of
\* radius types of the system
TabLookupSoa ==
  /\ fr.fn = "ctablef42d" /\ fr.at = "built"
  /\ \E b \in TabBatches :
       /\ \A e \in DOMAIN b : b[e].i < fr.ntypes /\ b[e].j < fr.ntypes
       /\ LET batch == [e \in DOMAIN b |->
                          [x |-> b[e].x, ri |-> fr.radii[b[e].i],
                           rj |-> fr.radii[b[e].j]]]
          IN fr' = [fr EXCEPT
                      !.at = "soa", !.batch = batch,
                      !.soa = agbnp3_interpolate_ctablef42d_soa(fr.t2d, batch)]
  /\ UNCHANGED pipeframe

\* agbnp3_interpolate_ctablef42d on the next element of the same batch
TabLookupScalar ==
  /\ fr.fn = "ctablef42d" /\ fr.at = "soa"
  /\ Len(fr.scalar) < Len(fr.batch)
  /\ LET e == fr.batch[Len(fr.scalar) + 1]
     IN fr' = [fr EXCEPT !.scalar =
                 Append(@, agbnp3_interpolate_ctablef42d(fr.t2d, e.x,
                                                         e.ri, e.rj))]
  /\ UNCHANGED pipeframe

NextTab ==
  TabCreate \/ TabEnter \/ TabBuilt \/ TabLookupSoa \/ TabLookupScalar

InitTab ==
  /\ InitIdle
  /\ fr \in {[fn |-> "ctablef42d", at |-> "entry", radii |-> q] : q \in TabTypes}

SpecTab == InitTab /\ [][NextTab]_vars

TabStarted == fr.fn = "ctablef42d" /\ fr.at # "entry"

\* C18: the tables are memoized by the hashed key of the quantized ratio:
\* entering a key that is present yields its slot, distinct keys have
\* distinct slots, every slot holds the table built for its key, and once
\* the tables are built the lookup of any ordered pair of radius types of
\* the system finds the slot of the table built for the key of that pair.
C18_TablesMemoizedByKey ==
  TabStarted =>
    /\ \A a \in DOMAIN fr.entered : \A b \in DOMAIN fr.entered :
         (fr.entered[a].key = fr.entered[b].key)
           <=> (fr.entered[a].slot = fr.entered[b].slot)
    /\ \A k \in DOMAIN fr.t2d.table :
         /\ (fr.t2d.y2i.key[k] >= 0) <=> (fr.t2d.table[k] # NoTable)
         /\ fr.t2d.table[k] # NoTable
              => /\ fr.t2d.table[k].key = fr.t2d.y2i.key[k]
                 /\ \E a \in DOMAIN fr.entered :
                      fr.entered[a].slot = k /\ fr.entered[a].key = fr.t2d.y2i.key[k]
         /\ \A l \in DOMAIN fr.t2d.table :
              (k # l /\ fr.t2d.y2i.key[k] >= 0)
                => fr.t2d.y2i.key[k] # fr.t2d.y2i.key[l]
    /\ fr.at = "built" =>
         \A i \in DOMAIN fr.radii : \A j \in DOMAIN fr.radii :
           LET key == ratio_key(fr.radii[i], fr.radii[j])
               iy == agbnp3_h_find(fr.t2d.y2i, key)
           IN /\ iy >= 0
              /\ fr.t2d.table[iy].key = key
              /\ \E a \in DOMAIN fr.entered :
                   /\ fr.entered[a].i = i /\ fr.entered[a].j = j
                   /\ fr.entered[a].slot = iy

\* The tables are built; two pairs of types had the same key, and a key
\* was moved by the probe from the slot its value names
C18_Witness ==
  /\ TabStarted /\ fr.at = "built"
  /\ \E a \in DOMAIN fr.entered : \E b \in DOMAIN fr.entered :
       a < b /\ fr.entered[a].key = fr.entered[b].key
  /\ \E a \in DOMAIN fr.entered :
       fr.entered[a].slot # fr.entered[a].key % fr.t2d.y2i.hsize

\* C19: for x >= 0, when floor(x/dx) > n-2 the scalar evaluation returns
\* (0, 0) and reads no node; otherwise it reads the nodes k and k+1 only,
\* k = floor(x/dx), 0 <= k <= n-2.
C19_NoExtrapolation ==
  (TabStarted /\ fr.at = "soa") =>
    \A e \in DOMAIN fr.scalar :
      LET r == fr.scalar[e]
          table1 == fr.t2d.table[r.iy]
          k == fr.batch[e].x \div table1.dx
      IN /\ r.iy >= 0
         /\ IF k > table1.n - 2
            THEN r.f = 0 /\ r.fp = 0 /\ r.reads = {}
            ELSE /\ r.reads = {k, k + 1}
                 /\ 0 <= k /\ k <= table1.n - 2
                 /\ r.reads \subseteq DOMAIN table1.y

\* Scalar evaluations on both sides of the end of the table
C19_Witness ==
  /\ TabStarted /\ fr.at = "soa"
  /\ \E e \in DOMAIN fr.scalar :
       fr.scalar[e].reads = {} /\ fr.batch[e].x \div TabDx = MaxNodes - 1
  /\ \E e \in DOMAIN fr.scalar :
       fr.scalar[e].reads = {MaxNodes - 2, MaxNodes - 1} /\ fr.scalar[e].f # 0

\* C20: for every element of a batch the vectorized lookup gives the value
\* and the derivative that the scalar lookup gives for the same distance
\* and ratio, from the same table and the same interval of nodes, also
\* where both give (0, 0) beyond the table.
C20_SoaEqualsScalar ==
  (TabStarted /\ fr.at = "soa") =>
    \A e \in DOMAIN fr.scalar :
      /\ fr.soa[e].f = fr.scalar[e].f
      /\ fr.soa[e].fp = fr.scalar[e].fp
      /\ fr.soa[e].iy = fr.scalar[e].iy
      /\ fr.soa[e].k = fr.scalar[e].k
      /\ fr.soa[e].reads = fr.scalar[e].reads
      /\ fr.soa[e].iy >= 0

\* A batch of two elements in different tables, one beyond its table and
\* one inside with a value that is not 0, both looked up both ways
C20_Witness ==
  /\ TabStarted /\ fr.at = "soa"
  /\ Len(fr.scalar) = 2 /\ Len(fr.batch) = 2
  /\ fr.soa[1].iy # fr.soa[2].iy
  /\ \E e \in 1 .. 2 : fr.soa[e].reads = {} /\ fr.soa[e].f = 0
  /\ \E e \in 1 .. 2 : fr.soa[e].reads # {} /\ fr.soa[e].f # 0

\* ------------------------------------------------------------ BORN_RADII
\* agbnp3_born_radii followed on its own by one worker, for every raw
\* inverse-radius sum that the forward pass can leave in the worker's br1:
\* negative, zero, small and large (times Scale).
RawSums == {-300, -1, 0, 1, 150, 8000}

\* agbnp3_swf_invbr: static const float_a a = 0.02
swf_invbr_a == (2 * Scale) \div 100

brframe == << conf, team, nlw, nl, pc, atbar, res, claimed, error, spent,
              hung, phase, neval, ret, out, pre, first, sh, ws >>

InitBR ==
  /\ conf = MainConf
  /\ team = 1
  /\ nlw = 0
  /\ nl = [w \in Workers |-> NLInit(conf)]
  /\ pc = [w \in Workers |-> DonePC]
  /\ atbar = [w \in Workers |-> FALSE]
  /\ res = [w \in Workers |-> AGBNP_OK]
  /\ claimed = {}
  /\ error = 0
  /\ spent = {}
  /\ hung = FALSE
  /\ phase = "idle"
  /\ neval = 0
  /\ ret = AGBNP_OK
  /\ out = OutInit(conf)
  /\ pre = OutInit(conf)
  /\ first = NoResult
  /\ m = MInit(conf)
  /\ \E raw \in [AtomsOf(conf) -> RawSums] :
       h = [w \in Workers |-> [HInit(conf) EXCEPT !.br1 = raw]]
  /\ sh = ShInit
  /\ ws = [w \in Workers |-> WsInit]
  /\ g = GInit
  /\ fr = [fn |-> "born_radii", at |-> "entry"]

\* agbnp3_utils.c:577-581: the worker's sums are added to the master copy
BRAdd ==
  /\ fr.fn = "born_radii" /\ fr.at = "entry"
  /\ m' = born_radii_add(nlw).m
  /\ g' = born_radii_add(nlw).g
  /\ fr' = [fr EXCEPT !.at = "added"]
  /\ UNCHANGED << brframe, h >>

\* agbnp3_utils.c:585-594: filter, inverse, brw
BRLocal ==
  /\ fr.fn = "born_radii" /\ fr.at = "added"
  /\ h' = born_radii_local(nlw).h
  /\ g' = born_radii_local(nlw).g
  /\ fr' = [fr EXCEPT !.at = "local"]
  /\ UNCHANGED << brframe, m >>

\* agbnp3_utils.c:597-606: the four copies to the master arrays
BRSync ==
  /\ fr.fn = "born_radii" /\ fr.at = "local"
  /\ m' = [m EXCEPT !.br1 = born_radii_sync_br1(nlw).m.br1,
                    !.br = born_radii_sync_br(nlw).m.br,
                    !.br1_swf_der = born_radii_sync_br1_swf_der(nlw).m.br1_swf_der,
                    !.brw = born_radii_sync_brw(nlw).m.brw]
  /\ fr' = [fr EXCEPT !.at = "done"]
  /\ UNCHANGED << brframe, h, g >>

NextBR == BRAdd \/ BRLocal \/ BRSync

SpecBR == InitBR /\ [][NextBR]_vars

\* the loop of agbnp3_utils.c:585-594 has run
BrFiltered == fr.fn = "born_radii" /\ fr.at \in {"local", "done"}

\* C21 as stated: for every raw inverse-radius sum, negative ones included,
\* the Born radius that BORN_RADII produces is greater than or equal to the
\* floor constant a of the filter.
C21_RadiusAboveFloor ==
  BrFiltered => \A i \in AtomsOf(conf) : h[nlw].br[i] >= swf_invbr_a

\* C21 amended: the floor constant a of the filter bounds the filtered
\* inverse Born radius from below, for every raw sum, negative ones
\* included; the Born radius is positive and at most 1/a, and the master
\* copies hold the same values when the stage ends.
C21_InverseAboveFloor ==
  /\ BrFiltered =>
       \A i \in AtomsOf(conf) :
          /\ h[nlw].br1[i] >= swf_invbr_a
          /\ h[nlw].br[i] > 0
          /\ h[nlw].br[i] <= (Scale * Scale) \div swf_invbr_a
  /\ fr.fn = "born_radii" /\ fr.at = "done" =>
       /\ m.br1 = h[nlw].br1
       /\ m.br = h[nlw].br
       /\ \A i \in AtomsOf(conf) : m.br1[i] >= swf_invbr_a

\* a negative sum has been filtered to the floor, and a large sum to a Born
\* radius below a
C21_Witness ==
  /\ fr.fn = "born_radii" /\ fr.at = "local"
  /\ \E i \in AtomsOf(conf) :
       /\ m.br1[i] < 0
       /\ h[nlw].br1[i] = swf_invbr_a
       /\ h[nlw].br[i] = (Scale * Scale) \div swf_invbr_a
  /\ \E j \in AtomsOf(conf) : m.br1[j] > 0 /\ h[nlw].br[j] < swf_invbr_a

\* ------------------------------------------------------ an isolated atom
\* One worker followed from RESET to the end of SCALING_FACTORS and to the
\* copy of agbnp3_ener, on every small structure that has a heavy atom with
\* no near neighbor.
Isolated(c, i) == i \in HeavyOf(c) /\ NearPartners(c, i) = {}

IsoConfs == {c \in Configs : \E i \in HeavyOf(c) : Isolated(c, i)}

isoframe == << team, nlw, pc, atbar, res, claimed, error, spent, hung, phase,
               neval, ret, pre, first, sh, ws >>

InitIso ==
  /\ conf \in IsoConfs
  /\ team = 1
  /\ nlw = 0
  /\ nl = [w \in Workers |-> NLInit(conf)]
  /\ PipeInit
  /\ fr = [fn |-> "isolated", at |-> "entry"]

IsoAt(a) == fr.fn = "isolated" /\ fr.at = a

\* agbnp3_reset_buffers, agbnp3_utils.c:411-459
IsoReset ==
  /\ IsoAt("entry")
  /\ h' = reset_buffers_memset(nlw).h
  /\ m' = [m EXCEPT !.volumep = reset_buffers_volumep(nlw).m.volumep,
                    !.surf_area = reset_buffers_surf_area(nlw).m.surf_area,
                    !.mvpji = reset_buffers_mvpji(nlw).m.mvpji,
                    !.br1 = reset_buffers_br1(nlw).m.br1,
                    !.ehb = reset_buffers_ehb(nlw).m.ehb]
  /\ fr' = [fr EXCEPT !.at = "reset"]
  /\ UNCHANGED << isoframe, conf, nl, out, g >>

\* agbnp3_neighbor_lists, every allocation succeeding
IsoLists ==
  /\ IsoAt("reset")
  /\ nl' = [nl EXCEPT ![nlw] = NLRun(conf, nl[nlw], nlw, team, 0, TRUE, FALSE)]
  /\ fr' = [fr EXCEPT !.at = "lists"]
  /\ UNCHANGED << isoframe, conf, m, h, out, g >>

\* agbnp3_self_volumes_rooti
IsoSelfVolumes ==
  /\ IsoAt("lists")
  /\ h' = self_volumes_rooti(nlw).h
  /\ fr' = [fr EXCEPT !.at = "self_volumes"]
  /\ UNCHANGED << isoframe, conf, nl, m, out, g >>

\* agbnp3_scaling_factors, agbnp3_utils.c:486-497
IsoAdd ==
  /\ IsoAt("self_volumes")
  /\ m' = [m EXCEPT !.volumep = scaling_factors_add_volumep(nlw).m.volumep,
                    !.surf_area = scaling_factors_add_surf_area(nlw).m.surf_area]
  /\ g' = scaling_factors_add_surf_area(nlw).g
  /\ fr' = [fr EXCEPT !.at = "added"]
  /\ UNCHANGED << isoframe, conf, nl, h, out >>

\* agbnp3_utils.c:499-512
IsoFilter ==
  /\ IsoAt("added")
  /\ Apply(scaling_factors_filter(nlw))
  /\ fr' = [fr EXCEPT !.at = "filtered"]
  /\ UNCHANGED << isoframe, conf, nl >>

\* agbnp3_utils.c:514-538
IsoLocal ==
  /\ IsoAt("filtered")
  /\ Apply(scaling_factors_local(nlw))
  /\ fr' = [fr EXCEPT !.at = "local"]
  /\ UNCHANGED << isoframe, conf, nl >>

\* agbnp3_utils.c:540-550
IsoSync ==
  /\ IsoAt("local")
  /\ Apply(scaling_factors_sync(nlw))
  /\ fr' = [fr EXCEPT !.at = "synced"]
  /\ UNCHANGED << isoframe, conf, nl >>

\* libagbnp3.c:555-561: sp and surf_area go to the caller
IsoReport ==
  /\ IsoAt("synced")
  /\ out' = [out EXCEPT !.sp = [i \in AtomsOf(conf) |->
                                  IF i < conf.nheavyat THEN m.sp[i] ELSE Scale],
                        !.surf_area = m.agb_surf_area]
  /\ fr' = [fr EXCEPT !.at = "done"]
  /\ UNCHANGED << isoframe, conf, nl, m, h, g >>

NextIso ==
  \/ IsoReset \/ IsoLists \/ IsoSelfVolumes \/ IsoAdd \/ IsoFilter
  \/ IsoLocal \/ IsoSync \/ IsoReport

SpecIso == InitIso /\ [][NextIso]_vars

SphereArea(c, i) == 4 * pi * c.r[i] * c.r[i]

\* C22 as stated: after an evaluation an atom with no neighbor within the
\* cutoff has its self volume equal to the volume of its sphere and its
\* reported surface area equal to 4 pi r^2 exactly.
C22_IsolatedExact ==
  IsoAt("done") =>
    \A i \in HeavyOf(conf) :
       Isolated(conf, i) =>
         /\ m.volumep[i] = vols(conf, i)
         /\ out.surf_area[i] = SphereArea(conf, i)

\* C22 amended: for a heavy atom with no neighbor within the cutoff,
\* SELF_VOLUMES takes nothing from the volume of the sphere and from
\* 4 pi r^2; SCALING_FACTORS then reports the area 4 pi r^2 times the
\* switching function of that area, which is below 4 pi r^2, and leaves as
\* self volume the volume of the sphere less the volume subtended by the
\* filtered area.
C22_IsolatedFiltered ==
  \A i \in HeavyOf(conf) :
     Isolated(conf, i) =>
       /\ fr.fn = "isolated" /\ fr.at \in {"self_volumes", "added"} =>
            /\ h[nlw].volumep[i] = 0
            /\ h[nlw].surf_area[i] = 0
       /\ fr.fn = "isolated" /\ fr.at \in {"added", "filtered"} =>
            /\ m.volumep[i] = vols(conf, i)
            /\ m.surf_area[i] = SphereArea(conf, i)
       /\ IsoAt("done") =>
            /\ out.surf_area[i] = FilteredArea(SphereArea(conf, i))
            /\ out.surf_area[i] < SphereArea(conf, i)
            /\ m.volumep[i] =
                 SurfaceCorrected(conf, i, vols(conf, i),
                                  FilteredArea(SphereArea(conf, i)))
            /\ out.sp[i] = (m.volumep[i] * Scale) \div vols(conf, i)

\* an evaluation has ended on a structure in which one heavy atom is
\* isolated and another is not
C22_Witness ==
  /\ IsoAt("done")
  /\ \E i \in HeavyOf(conf) :
       Isolated(conf, i) /\ out.surf_area[i] = FilteredArea(SphereArea(conf, i))
  /\ \E j \in HeavyOf(conf) : ~Isolated(conf, j)

\* -------------------------------------- water site of a polar hydrogen
\* agbnp3_create_ws_atoms_ph and agbnp3_update_ws_atoms_ph followed on
\* their own. Coordinates are integers, the site position and the
\* derivative blocks are times Scale.
Axes == 0 .. 2

Vec(a, b, e) == [i \in Axes |-> IF i = 0 THEN a ELSE IF i = 1 THEN b ELSE e]

Plus(u, v) == [i \in Axes |-> u[i] + v[i]]

\* libagbnp3.c:2817-2821 for der2: w1 = 1. - w
der2_diag_whole(w) == Scale

der2_diag(w) == Scale - w

\* agbnp3_place_wat_hydrogen, libagbnp3.c:2790-2825
agbnp3_place_wat_hydrogen(xd, xh, d) ==
  LET dx == [i \in Axes |-> xh[i] - xd[i]]
      n2 == dx[0] * dx[0] + dx[1] * dx[1] + dx[2] * dx[2]
      w == (d * Scale) \div ISqrt(n2 * Scale * Scale)
      w2 == w \div n2
  IN [pos |-> [i \in Axes |-> xd[i] * Scale + w * dx[i]],
      der1 |-> [i \in Axes |-> [j \in Axes |->
                  (-1) * ((w2 * dx[i]) * dx[j]) + IF i = j THEN w ELSE 0]],
      der2 |-> [i \in Axes |-> [j \in Axes |->
                  (w2 * dx[i]) * dx[j] + IF i = j THEN der2_diag(w) ELSE 0]]]

\* libagbnp3.c:2708-2714: the first heavy atom of the hydrogen's bonded
\* list, -1 when there is none; conn[k] says whether neighbor k is heavy
ph_parent(conn) ==
  IF \E k \in DOMAIN conn : conn[k]
  THEN CHOOSE k \in DOMAIN conn : conn[k] /\ \A l \in 1 .. (k - 1) : ~conn[l]
  ELSE -1

PhFrames ==
  {[fn |-> "ws_atoms_ph", at |-> "entry", conn |-> cn, xh |-> xh, xd |-> xd,
    t |-> t, nws |-> 0, ret |-> AGBNP_OK, twsatb |-> << >>, pos0 |-> xh] :
     cn \in {<< >>, << FALSE >>, << TRUE >>, << FALSE, TRUE >>},
     xh \in {Vec(a, b, e) : a \in 0 .. MaxCoord, b \in 0 .. MaxCoord,
                            e \in 0 .. 1},
     xd \in {Vec(a, b, 0) : a \in 0 .. 1, b \in 0 .. 1},
     t \in {Vec(1, 0, 0), Vec(-2, 3, 1)}}

\* agbnp3_create_ws_atoms_ph, libagbnp3.c:2689-2749
PHCreate ==
  /\ fr.fn = "ws_atoms_ph" /\ fr.at = "entry"
  /\ Len(fr.conn) > 0 /\ ph_parent(fr.conn) >= 0
  /\ LET p == agbnp3_place_wat_hydrogen(fr.xd, fr.xh, AGBNP_HB_LENGTH)
     IN fr' = [fr EXCEPT
                 !.twsatb = << [pos |-> p.pos, type |-> AGBNP_HB_POLARH,
                                nparents |-> 2,
                                parent |-> << "iat", ph_parent(fr.conn) >>,
                                dpos |-> << p.der1, p.der2 >>] >>,
                 !.pos0 = p.pos, !.nws = 1, !.ret = AGBNP_OK,
                 !.at = "created"]
  /\ UNCHANGED pipeframe

\* libagbnp3.c:2700-2706 and 2715-2721: no bonded atom, or no heavy one
PHCreateErr ==
  /\ fr.fn = "ws_atoms_ph" /\ fr.at = "entry"
  /\ Len(fr.conn) <= 0 \/ ph_parent(fr.conn) < 0
  /\ fr' = [fr EXCEPT !.ret = AGBNP_ERR, !.at = "failed"]
  /\ UNCHANGED pipeframe

\* libagbnp3.c:536-541: the next evaluation has both parents moved by t
PHMove ==
  /\ fr.fn = "ws_atoms_ph" /\ fr.at = "created"
  /\ fr' = [fr EXCEPT !.xh = Plus(fr.xh, fr.t), !.xd = Plus(fr.xd, fr.t),
                      !.at = "moved"]
  /\ UNCHANGED pipeframe

\* agbnp3_update_ws_atoms_ph, libagbnp3.c:2751-2777
PHUpdate ==
  /\ fr.fn = "ws_atoms_ph" /\ fr.at = "moved"
  /\ LET p == agbnp3_place_wat_hydrogen(fr.xd, fr.xh, AGBNP_HB_LENGTH)
     IN fr' = [fr EXCEPT !.twsatb[1].pos = p.pos,
                         !.twsatb[1].dpos = << p.der1, p.der2 >>,
                         !.at = "updated"]
  /\ UNCHANGED pipeframe

NextPH == PHCreate \/ PHCreateErr \/ PHMove \/ PHUpdate

\* the hydrogen and its donor are not at the same point
InitPH == InitIdle /\ fr \in PhFrames /\ fr.xh # fr.xd

SpecPH == InitPH /\ [][NextPH]_vars

PhSite == fr.fn = "ws_atoms_ph" /\ fr.at \in {"created", "moved", "updated"}

\* C23: the two 3x3 blocks of the derivative of the position of the water
\* site of a polar hydrogen, one per parent, add up to the identity matrix,
\* and when both parents are moved by the same vector the site is moved by
\* that vector.
C23_BlocksSumToIdentity ==
  /\ PhSite =>
       /\ Len(fr.twsatb) = 1 /\ fr.nws = 1
       /\ fr.twsatb[1].nparents = 2
       /\ \A i \in Axes : \A j \in Axes :
            fr.twsatb[1].dpos[1][i][j] + fr.twsatb[1].dpos[2][i][j]
              = IF i = j THEN Scale ELSE 0
  /\ fr.fn = "ws_atoms_ph" /\ fr.at = "updated" =>
       \A i \in Axes : fr.twsatb[1].pos[i] = fr.pos0[i] + Scale * fr.t[i]

\* a site off the axes, with blocks that are not diagonal, has been moved
C23_Witness ==
  /\ fr.fn = "ws_atoms_ph" /\ fr.at = "updated"
  /\ fr.twsatb[1].dpos[1][0][1] # 0
  /\ fr.twsatb[1].dpos[1][0][0] # fr.twsatb[1].dpos[2][0][0]
  /\ fr.twsatb[1].pos # fr.pos0

\* ------------------------------------------------- the table of structures
\* agbnp3_initialize, agbnp3_terminate, agbnp3_new, agbnp3_delete and the tag
\* check of agbnp3_ener, called in any order by one caller. The frame holds
\* the statics of libagbnp3.c:27-37: agbnp3_initialized, agbdata3_list (null
\* says the pointer is NULL, list holds the slots of the block otherwise),
\* agbdata3_allocated, agbdata3_used. A slot is in_use and the creation that
\* filled it (gen, 0 for a reset slot). live, down, everdown and last are
\* history: the tags returned by a successful agbnp3_new and not deleted
\* since, whether agbnp3_terminate has freed the table and no table was
\* created since, whether it ever did, and the last call with what held
\* when it was made.
LibSlot(u, gn) == [in_use |-> u, gen |-> gn]

Tags == (-1) .. MaxSlots

NoCall == [op |-> "none", tag |-> -1, ret |-> AGBNP_OK, accepted |-> FALSE,
           undef |-> FALSE, live |-> {}, list |-> << >>, down |-> FALSE]

LibFrame ==
  [fn |-> "library", initialized |-> FALSE, null |-> TRUE, list |-> << >>,
   allocated |-> 0, used |-> 0, live |-> {}, down |-> FALSE,
   everdown |-> FALSE, ncalls |-> 0, crashed |-> FALSE, last |-> NoCall]

LibCall == fr.fn = "library" /\ ~fr.crashed /\ fr.ncalls < MaxCalls

\* the call that is returning: what it was and what held when it was made
Called(op, tag, r, acc, ub) ==
  [op |-> op, tag |-> tag, ret |-> r, accepted |-> acc, undef |-> ub,
   live |-> fr.live, list |-> fr.list, down |-> fr.down]

\* a read through the NULL agbdata3_list is undefined: the call crashes, or
\* goes on with whatever it read and returns either value
Undefined(op, tag) ==
  \E oc \in {"crash", "ok", "err"} :
     fr' = [fr EXCEPT
              !.ncalls = @ + 1,
              !.crashed = (oc = "crash"),
              !.last = Called(op, tag,
                              IF oc = "ok" THEN AGBNP_OK ELSE AGBNP_ERR,
                              oc = "ok", TRUE)]

\* agbnp3_tag_ok, libagbnp3.c:586-595
agbnp3_tag_ok(F, tag) ==
  IF tag < 0 \/ tag >= F.allocated THEN "FALSE"
  ELSE IF F.null THEN "undefined"
  ELSE IF F.list[tag + 1].in_use THEN "TRUE" ELSE "FALSE"

\* agbnp3_initialize, libagbnp3.c:40-66
LibInitialize ==
  /\ LibCall
  /\ IF fr.initialized
     THEN fr' = [fr EXCEPT !.ncalls = @ + 1,
                           !.last = Called("initialize", -1, AGBNP_OK,
                                           FALSE, FALSE)]
     ELSE \E ok \in BOOLEAN :
            IF ok
            THEN fr' = [fr EXCEPT
                          !.null = FALSE,
                          !.list = << LibSlot(FALSE, 0) >>,
                          !.allocated = 1, !.used = 0,
                          !.initialized = TRUE, !.down = FALSE,
                          !.ncalls = @ + 1,
                          !.last = Called("initialize", -1, AGBNP_OK,
                                          FALSE, FALSE)]
            ELSE fr' = [fr EXCEPT
                          !.null = TRUE, !.list = << >>,
                          !.ncalls = @ + 1,
                          !.last = Called("initialize", -1, AGBNP_ERR,
                                          FALSE, FALSE)]
  /\ UNCHANGED pipeframe

\* agbnp3_terminate, libagbnp3.c:69-91: agbnp3_initialized is left as it is
LibTerminate ==
  /\ LibCall
  /\ IF ~fr.initialized
     THEN fr' = [fr EXCEPT !.ncalls = @ + 1,
                           !.last = Called("terminate", -1, AGBNP_OK,
                                           FALSE, FALSE)]
     ELSE IF fr.null /\ fr.allocated > 0 THEN Undefined("terminate", -1)
     ELSE fr' = [fr EXCEPT
                   !.null = TRUE, !.list = << >>,
                   !.allocated = 0, !.used = 0,
                   !.live = {}, !.down = TRUE, !.everdown = TRUE,
                   !.ncalls = @ + 1,
                   !.last = Called("terminate", -1, AGBNP_OK, FALSE, FALSE)]
  /\ UNCHANGED pipeframe

\* libagbnp3.c:122-145: the first slot that is not in use, the table grown
\* by AGBDATA_INCREMENT when every slot is in use
FreeSlot(list) ==
  IF \E k \in DOMAIN list : ~list[k].in_use
  THEN (CHOOSE k \in DOMAIN list :
          ~list[k].in_use /\ \A l \in 1 .. (k - 1) : list[l].in_use) - 1
  ELSE Len(list)

\* agbnp3_new, libagbnp3.c:94-436. grown says whether realloc succeeds,
\* built whether every allocation of the structure does.
LibNew ==
  /\ LibCall
  /\ IF ~fr.initialized
     THEN fr' = [fr EXCEPT !.ncalls = @ + 1,
                           !.last = Called("new", -1, AGBNP_ERR, FALSE, FALSE)]
     ELSE IF fr.null THEN Undefined("new", -1)
     ELSE LET slot == FreeSlot(fr.list)
              grows == slot >= fr.allocated
          IN /\ grows => fr.allocated < MaxSlots
             /\ \E grown \in BOOLEAN, built \in BOOLEAN :
                  IF grows /\ ~grown
                  THEN fr' = [fr EXCEPT
                                !.null = TRUE, !.list = << >>,
                                !.ncalls = @ + 1,
                                !.last = Called("new", -1, AGBNP_ERR,
                                                FALSE, FALSE)]
                  ELSE LET tbl == IF grows
                                  THEN Append(fr.list, LibSlot(FALSE, 0))
                                  ELSE fr.list
                       IN IF built
                          THEN fr' = [fr EXCEPT
                                        !.list = [tbl EXCEPT ![slot + 1] =
                                                    LibSlot(TRUE, fr.ncalls + 1)],
                                        !.allocated = Len(tbl),
                                        !.used = @ + 1,
                                        !.live = @ \cup {slot},
                                        !.ncalls = @ + 1,
                                        !.last = Called("new", slot, AGBNP_OK,
                                                        TRUE, FALSE)]
                          ELSE fr' = [fr EXCEPT
                                        !.list = [tbl EXCEPT ![slot + 1] =
                                                    LibSlot(FALSE, 0)],
                                        !.allocated = Len(tbl),
                                        !.ncalls = @ + 1,
                                        !.last = Called("new", slot, AGBNP_ERR,
                                                        FALSE, FALSE)]
  /\ UNCHANGED pipeframe

\* agbnp3_delete, libagbnp3.c:439-504: agbdata3_used is left as it is
LibDelete ==
  /\ LibCall
  /\ \E tag \in Tags :
       IF ~fr.initialized \/ agbnp3_tag_ok(fr, tag) = "FALSE"
       THEN fr' = [fr EXCEPT !.ncalls = @ + 1,
                             !.last = Called("delete", tag, AGBNP_ERR,
                                             FALSE, FALSE)]
       ELSE IF agbnp3_tag_ok(fr, tag) = "undefined"
       THEN Undefined("delete", tag)
       ELSE fr' = [fr EXCEPT
                     !.list[tag + 1] = LibSlot(FALSE, 0),
                     !.live = @ \ {tag},
                     !.ncalls = @ + 1,
                     !.last = Called("delete", tag, AGBNP_OK, TRUE, FALSE)]
  /\ UNCHANGED pipeframe

\* agbnp3_ener, libagbnp3.c:509-531: the checks made before the evaluation
LibEner ==
  /\ LibCall
  /\ \E tag \in Tags :
       IF ~fr.initialized \/ agbnp3_tag_ok(fr, tag) = "FALSE"
       THEN fr' = [fr EXCEPT !.ncalls = @ + 1,
                             !.last = Called("ener", tag, AGBNP_ERR,
                                             FALSE, FALSE)]
       ELSE IF agbnp3_tag_ok(fr, tag) = "undefined"
       THEN Undefined("ener", tag)
       ELSE \E r \in {AGBNP_OK, AGBNP_ERR} :
              fr' = [fr EXCEPT !.ncalls = @ + 1,
                               !.last = Called("ener", tag, r, TRUE, FALSE)]
  /\ UNCHANGED pipeframe

NextLib == LibInitialize \/ LibTerminate \/ LibNew \/ LibDelete \/ LibEner

InitLib == InitIdle /\ fr = LibFrame

SpecLib == InitLib /\ [][NextLib]_vars

InUse == {k \in DOMAIN fr.list : fr.list[k].in_use}

\* C25: as long as only agbnp3_new, agbnp3_delete and agbnp3_ener are
\* called on the initialized library, agbnp3_ener and agbnp3_delete accept
\* a tag exactly when a successful agbnp3_new returned it and it has not
\* been deleted since; the live tags name distinct structures that are in
\* use; a call with any other tag returns AGBNP_ERR and changes no
\* structure.
C25_TagAcceptedIffLive ==
  (fr.fn = "library" /\ fr.initialized /\ ~fr.everdown) =>
    /\ ~fr.crashed
    /\ \A t \in fr.live : t + 1 \in InUse
    /\ \A t \in fr.live : \A u \in fr.live :
         fr.list[t + 1].gen = fr.list[u + 1].gen => t = u
    /\ fr.last.op \in {"ener", "delete"} =>
         /\ fr.last.accepted <=> fr.last.tag \in fr.last.live
         /\ ~fr.last.accepted =>
              fr.last.ret = AGBNP_ERR /\ fr.list = fr.last.list

\* C26: after any sequence of agbnp3_initialize, agbnp3_new, agbnp3_delete
\* and agbnp3_terminate calls agbdata3_used is the number of structures in
\* use.
C26_UsedCountsInUse ==
  (fr.fn = "library" /\ ~fr.crashed) => fr.used = Cardinality(InUse)

\* C27: after agbnp3_terminate, agbnp3_new returns AGBNP_ERR until
\* agbnp3_initialize is called again; that agbnp3_initialize creates an
\* empty table; and agbnp3_new never reads a table that has been freed.
C27_TerminatedIsUninitialized ==
  fr.fn = "library" =>
    /\ (fr.last.op = "new" /\ fr.last.down) =>
         fr.last.ret = AGBNP_ERR /\ ~fr.last.undef
    /\ (fr.last.op = "initialize" /\ fr.last.ret = AGBNP_OK) =>
         ~fr.null /\ ~fr.down
    /\ fr.last.op = "new" => ~fr.last.undef

\* ------------------------------------------------------ the atom order
\* agbnp3_atom_reorder followed statement by statement for every list of
\* hydrogens without duplicates, then the copies by which agbnp3_new and
\* agbnp3_ener take the caller's per-atom data in and give the per-atom
\* results back. The caller's atom e has the coordinate CallerX(e); the
\* evaluation is taken to give an atom a result that depends on its own
\* data only.
Ext(n) == 0 .. (n - 1)

SeqRangeOf(q) == {q[k] : k \in DOMAIN q}

\* the lists of k distinct atoms, in any order
RECURSIVE NoDupLists(_, _)
NoDupLists(S, k) ==
  IF k = 0 THEN {<< >>}
  ELSE UNION { {Append(q, e) : e \in S \ SeqRangeOf(q)}
               : q \in NoDupLists(S, k - 1) }

CallerX(e) == 10 + e

ResultOf(r) == 100 + r

ReorderFrames ==
  UNION { UNION { { [fn |-> "atom_reorder", at |-> "entry", natoms |-> n,
                     nhydrogen |-> k, ihydrogen |-> q,
                     int2ext |-> [i \in Ext(n) |-> 0],
                     ext2int |-> [i \in Ext(n) |-> 0],
                     ishydrogen |-> [i \in Ext(n) |-> 0],
                     nheavy |-> 0, nc |-> 0, nh |-> 0, i |-> 0,
                     agb_x |-> [i \in Ext(n) |-> 0],
                     agb_br |-> [i \in Ext(n) |-> 0],
                     br |-> [i \in Ext(n) |-> -1]]
                    : q \in NoDupLists(Ext(n), k) }
                  : k \in 0 .. n }
          : n \in 1 .. MaxReorder }

\* libagbnp3.c:794-808: the identity and the hydrogen flags
ROEnter ==
  /\ fr.fn = "atom_reorder" /\ fr.at = "entry"
  /\ fr' = [fr EXCEPT
              !.nheavy = fr.natoms - fr.nhydrogen,
              !.int2ext = [i \in Ext(fr.natoms) |-> i],
              !.ext2int = [i \in Ext(fr.natoms) |-> i],
              !.ishydrogen = [i \in Ext(fr.natoms) |->
                                IF i \in SeqRangeOf(fr.ihydrogen) THEN 1 ELSE 0],
              !.nc = 0, !.nh = 0, !.i = 0, !.at = "loop"]
  /\ UNCHANGED pipeframe

\* an index list that is given to the output as it is
reorder_slot_plain(F) == F.i

\* libagbnp3.c:809-818: the internal index the atom i gets
reorder_slot(F) ==
  IF F.ishydrogen[F.i] # 0 THEN F.nheavy + F.nh ELSE F.nc

\* libagbnp3.c:808-819: one turn of the loop over the caller's atoms
ROStep ==
  /\ fr.fn = "atom_reorder" /\ fr.at = "loop"
  /\ fr.i < fr.natoms
  /\ reorder_slot(fr) \in Ext(fr.natoms)
  /\ fr' = [fr EXCEPT
              !.int2ext[reorder_slot(fr)] = fr.i,
              !.ext2int[fr.i] = reorder_slot(fr),
              !.nh = IF fr.ishydrogen[fr.i] # 0 THEN @ + 1 ELSE @,
              !.nc = IF fr.ishydrogen[fr.i] # 0 THEN @ ELSE @ + 1,
              !.i = @ + 1]
  /\ UNCHANGED pipeframe

\* libagbnp3.c:825-826
ROReturn ==
  /\ fr.fn = "atom_reorder" /\ fr.at = "loop"
  /\ fr.i >= fr.natoms
  /\ fr' = [fr EXCEPT !.at = "reordered"]
  /\ UNCHANGED pipeframe

\* agbnp3_ener, libagbnp3.c:536-541: the caller's coordinates in internal
\* order (one coordinate stands for the three)
EnerCopyIn ==
  /\ fr.fn = "atom_reorder" /\ fr.at = "reordered"
  /\ fr' = [fr EXCEPT
              !.agb_x = [iat \in Ext(fr.natoms) |-> CallerX(fr.int2ext[iat])],
              !.at = "copied"]
  /\ UNCHANGED pipeframe

\* agbnp3_ener, libagbnp3.c:543-561: the evaluation and the copy of br, sp
\* and surf_area to the caller's arrays at iatext = int2ext[iat]
EnerCopyOut ==
  /\ fr.fn = "atom_reorder" /\ fr.at = "copied"
  /\ LET res_int == [iat \in Ext(fr.natoms) |-> ResultOf(fr.agb_x[iat])]
     IN fr' = [fr EXCEPT
                 !.agb_br = res_int,
                 !.br = [e \in Ext(fr.natoms) |->
                           IF \E iat \in Ext(fr.natoms) : fr.int2ext[iat] = e
                           THEN res_int[CHOOSE iat \in Ext(fr.natoms) :
                                          fr.int2ext[iat] = e
                                          /\ \A l \in Ext(fr.natoms) :
                                               fr.int2ext[l] = e => l <= iat]
                           ELSE fr.br[e]],
                 !.at = "reported"]
  /\ UNCHANGED pipeframe

NextReorder == ROEnter \/ ROStep \/ ROReturn \/ EnerCopyIn \/ EnerCopyOut

InitReorder == InitIdle /\ fr \in ReorderFrames

SpecReorder == InitReorder /\ [][NextReorder]_vars

Reordered ==
  fr.fn = "atom_reorder" /\ fr.at \in {"reordered", "copied", "reported"}

\* C28: when the list of hydrogens has no duplicates, int2ext and ext2int
\* are permutations of 0..natoms-1 and inverse of each other, the atoms that
\* are not hydrogens have the internal indices 0..nheavy-1 in the order the
\* caller gave them, the hydrogens have the other indices, and agbnp3_ener
\* reports the result of every atom at the index the caller gave the atom.
C28_ReorderIsPermutation ==
  /\ Reordered =>
       LET n == fr.natoms
           H == SeqRangeOf(fr.ihydrogen)
       IN /\ \A i \in Ext(n) : fr.int2ext[i] \in Ext(n)
          /\ \A e \in Ext(n) : fr.ext2int[e] \in Ext(n)
          /\ \A i \in Ext(n) : fr.ext2int[fr.int2ext[i]] = i
          /\ \A e \in Ext(n) : fr.int2ext[fr.ext2int[e]] = e
          /\ \A i \in Ext(n) : (i < fr.nheavy) <=> (fr.int2ext[i] \notin H)
          /\ \A i \in Ext(n) : \A j \in Ext(n) :
               (i < j /\ j < fr.nheavy) => fr.int2ext[i] < fr.int2ext[j]
  /\ (fr.fn = "atom_reorder" /\ fr.at = "reported") =>
       \A e \in Ext(fr.natoms) : fr.br[e] = ResultOf(CallerX(e))

\* an evaluation has reported on a structure whose hydrogens are listed out
\* of order and come before a heavy atom
C28_Witness ==
  /\ fr.fn = "atom_reorder" /\ fr.at = "reported"
  /\ fr.nhydrogen >= 2
  /\ fr.ihydrogen[1] > fr.ihydrogen[2]
  /\ \E e \in Ext(fr.natoms) : fr.ext2int[e] # e /\ fr.ishydrogen[e] = 0

\* --------------------------------------------------- the site list's size
\* agbnp3_create_wsatoms followed with its counters only, for structures of
\* many atoms: every atom is inactive or active, an active atom gets 0 to 4
\* sites from agbnp3_create_ws_ofatom (its buffer twsatb has 4 entries) or
\* an error, and calloc and realloc succeed or fail. room is the least
\* number of free entries the list had, in this call, when the sites of an
\* atom were about to be copied.
CapAtoms == {1, 3, 30, 210}

\* the numbers of heavy atoms tried: none, one or all of a small structure,
\* a tenth of a large one
CapHeavy(n) == IF n > 100 THEN {n \div 10} ELSE {0, 1, n}

CapFrames ==
  { [fn |-> "create_wsatoms", at |-> "idle", natoms |-> n, nheavyat |-> nh,
     alloc |-> FALSE, wsat_size |-> 0, nwsat |-> 0, incr |-> 0, error |-> 0,
     iat |-> 0, copied |-> FALSE, room |-> 0, ncalls |-> 0,
     ret |-> AGBNP_OK]
    : n \in CapAtoms, nh \in 0 .. 210 }

\* the calls followed: one of a large structure, MaxCapCalls of a small one
CapCalls(n) == IF n > 10 THEN 1 ELSE MaxCapCalls

\* libagbnp3.c:2409-2426 when the list exists or calloc succeeds
CapEnter ==
  /\ fr.fn = "create_wsatoms" /\ fr.at = "idle"
  /\ fr.ncalls < CapCalls(fr.natoms)
  /\ fr' = [fr EXCEPT
              !.alloc = TRUE,
              !.wsat_size = IF fr.alloc THEN @ ELSE fr.nheavyat,
              !.nwsat = 0,
              !.incr = Max(fr.natoms \div 10, min_incr),
              !.error = 0, !.iat = 0, !.copied = FALSE, !.room = 0,
              !.at = "loop"]
  /\ UNCHANGED pipeframe

\* libagbnp3.c:2409-2416: calloc fails
CapEnterFail ==
  /\ fr.fn = "create_wsatoms" /\ fr.at = "idle"
  /\ fr.ncalls < CapCalls(fr.natoms)
  /\ ~fr.alloc
  /\ fr' = [fr EXCEPT !.ret = AGBNP_ERR, !.ncalls = @ + 1]
  /\ UNCHANGED pipeframe

\* a list that grows only when it is full
cap_needs_realloc_full(size, n) == size - n < 1

\* libagbnp3.c:2431
cap_needs_realloc(size, n) == size - n < min_incr

\* libagbnp3.c:2429-2430: an atom that is passed over
CapSkip ==
  /\ fr.fn = "create_wsatoms" /\ fr.at = "loop"
  /\ fr.iat < fr.natoms
  /\ fr' = [fr EXCEPT !.iat = @ + 1]
  /\ UNCHANGED pipeframe

\* libagbnp3.c:2431-2455: an active atom; nws sites are copied
CapIter ==
  /\ fr.fn = "create_wsatoms" /\ fr.at = "loop"
  /\ fr.iat < fr.natoms
  /\ fr.error = 0
  /\ \E nws \in 0 .. 4 :
       LET size == IF cap_needs_realloc(fr.wsat_size, fr.nwsat)
                   THEN fr.wsat_size + fr.incr ELSE fr.wsat_size
       IN fr' = [fr EXCEPT !.wsat_size = size,
                           !.copied = TRUE,
                           !.room = IF fr.copied /\ fr.room < size - fr.nwsat
                                    THEN fr.room ELSE size - fr.nwsat,
                           !.nwsat = @ + nws,
                           !.iat = @ + 1]
  /\ UNCHANGED pipeframe

\* libagbnp3.c:2431-2438: realloc fails
CapIterFail ==
  /\ fr.fn = "create_wsatoms" /\ fr.at = "loop"
  /\ fr.iat < fr.natoms
  /\ fr.error = 0
  /\ cap_needs_realloc(fr.wsat_size, fr.nwsat)
  /\ fr' = [fr EXCEPT !.alloc = FALSE, !.error = 1, !.iat = @ + 1]
  /\ UNCHANGED pipeframe

\* libagbnp3.c:2431-2449: agbnp3_create_ws_ofatom fails
CapIterErr ==
  /\ fr.fn = "create_wsatoms" /\ fr.at = "loop"
  /\ fr.iat < fr.natoms
  /\ fr.error = 0
  /\ fr' = [fr EXCEPT
              !.wsat_size = IF cap_needs_realloc(fr.wsat_size, fr.nwsat)
                            THEN @ + fr.incr ELSE @,
              !.error = 1, !.iat = @ + 1]
  /\ UNCHANGED pipeframe

\* libagbnp3.c:2458-2468
CapReturn ==
  /\ fr.fn = "create_wsatoms" /\ fr.at = "loop"
  /\ fr.iat >= fr.natoms
  /\ fr' = [fr EXCEPT !.ret = IF fr.error # 0 THEN AGBNP_ERR ELSE AGBNP_OK,
                      !.ncalls = @ + 1, !.at = "idle"]
  /\ UNCHANGED pipeframe

NextCap ==
  \/ CapEnter \/ CapEnterFail \/ CapSkip \/ CapIter \/ CapIterFail
  \/ CapIterErr \/ CapReturn

InitCap ==
  InitIdle /\ fr \in CapFrames /\ fr.nheavyat \in CapHeavy(fr.natoms)

SpecCap == InitCap /\ [][NextCap]_vars

\* C29: the number of stored water sites never exceeds the size of the site
\* list, and whenever the sites of an atom are copied the list has at least
\* 4 free entries before the first of them, whatever the number of atoms and
\* the numbers of sites (0 to 4) of the atoms before.
C29_RoomForFourSites ==
  fr.fn = "create_wsatoms" =>
    /\ fr.nwsat <= fr.wsat_size
    /\ fr.copied => fr.room >= 4

\* the list has grown a second time in one call, on a structure of more
\* than 200 atoms, and sites were copied when fewer than min_incr + 4
\* entries were free
C29_Witness ==
  /\ fr.fn = "create_wsatoms" /\ fr.at = "loop"
  /\ fr.natoms > 200
  /\ fr.copied
  /\ fr.wsat_size >= fr.nheavyat + 2 * fr.incr
  /\ fr.room < min_incr + 4

\* ------------------------------------------------------- the work data
\* The buffers of one AGBworkdata from agbnp3_allocate_agbworkdata to
\* agbnp3_delete_agbworkdata, statement by statement. A field stands for
\* the fields the two functions treat as they treat it: vols for the arrays
\* allocated at libagbnp3.c:1001-1070 and released at 1186-1249, mq4 for the
\* two tables released with their rows, qdv for the buffers of
\* agbnp3_reallocate_qbuffers released and reset, and mvpji, v3, hv3, qR2v
\* and wsat for themselves. ptr[f] tells whether the field f holds the
\* address of its block, heap the state of every block, nfree the calls of
\* free() that got the block, late the blocks freed by a repeated teardown.
WdFields == {"vols", "mvpji", "mq4", "v3", "hv3", "qdv", "qR2v", "wsat"}

WdTables == {"mvpji", "mq4"}

\* the block of a field, and the block of row i of a table
Blk(f) == << f, -1 >>

Row(t, i) == << t, i >>

WdBlocks(n) == {Blk(f) : f \in WdFields} \cup
               {Row(t, i) : t \in WdTables, i \in 0 .. (n - 1)}

\* agbnp3_reset_agbworkdata, libagbnp3.c:640-785: every pointer NULL
WdFrames ==
  { [fn |-> "agbworkdata", at |-> "reset", natoms |-> n,
     ptr |-> [f \in WdFields |-> FALSE],
     heap |-> [b \in WdBlocks(n) |-> "none"],
     nfree |-> [b \in WdBlocks(n) |-> 0],
     late |-> 0, step |-> 0, pass |-> 0, ret |-> AGBNP_OK]
    : n \in 1 .. MaxRows }

\* the fields of the first part of agbnp3_allocate_agbworkdata
\* (libagbnp3.c:1001-1091), and of the buffers it has allocated after it
\* (agbnp3_reallocate_gbuffers 1157, _hbuffers 1163, _qbuffers 1169)
WdStages == << {"vols", "mvpji", "mq4"}, {"v3"}, {"hv3"}, {"qdv", "qR2v"} >>

WdUpTo(k) == UNION {WdStages[j] : j \in 1 .. k}

\* the blocks the fields of got and their rows
WdGot(F, got) ==
  [F EXCEPT
     !.ptr = [f \in WdFields |-> F.ptr[f] \/ f \in got],
     !.heap = [b \in WdBlocks(F.natoms) |->
                 IF b[1] \in got /\ (b[2] = -1 \/ b[1] \in WdTables)
                 THEN "live" ELSE F.heap[b]]]

\* libagbnp3.c:996-1182, every allocation succeeds
WdAllocate ==
  /\ fr.fn = "agbworkdata" /\ fr.at = "reset"
  /\ fr' = [WdGot(fr, WdUpTo(4)) EXCEPT !.at = "allocated", !.ret = AGBNP_OK]
  /\ UNCHANGED pipeframe

\* libagbnp3.c:1094-1120, 1157-1172: an allocation of stage k fails and the
\* function returns AGBNP_ERR; agbnp3_new returns AGBNP_ERR in its turn
\* (libagbnp3.c:359-362) and the structure is never in use. When the table
\* mvpji or mq4 is the one that fails, the loop of 1073-1080 stores the rows
\* through the null pointer: the call returns as above or ends the program.
WdAllocateFail ==
  /\ fr.fn = "agbworkdata" /\ fr.at = "reset"
  /\ \E k \in 1 .. Len(WdStages) :
     \E got \in (SUBSET WdStages[k]) \ {WdStages[k]} :
     \E end \in {"failed", "crashed"} :
       /\ end = "crashed" => (WdTables \cap WdStages[k]) \ got # {}
       /\ fr' = [WdGot(fr, WdUpTo(k - 1) \cup got)
                   EXCEPT !.at = end, !.ret = AGBNP_ERR]
  /\ UNCHANGED pipeframe

\* agbnp3_create_wsatoms, libagbnp3.c:2409-2417: the list of water sites is
\* allocated by the first evaluation
WdWsat ==
  /\ fr.fn = "agbworkdata" /\ fr.at = "allocated"
  /\ ~fr.ptr["wsat"]
  /\ fr' = WdGot(fr, {"wsat"})
  /\ UNCHANGED pipeframe

\* the statements of agbnp3_delete_agbworkdata that touch the fields above,
\* in the order of the source: the field tested, the field whose value is
\* given to agbnp3_free, the field set to NULL
delete_agbworkdata ==
  << [test |-> "vols", free |-> "vols", null |-> "vols"],
     [test |-> "mq4",  free |-> "mq4",  null |-> "mq4"],
     [test |-> "wsat", free |-> "wsat", null |-> "wsat"],
     [test |-> "v3",   free |-> "hv3",  null |-> "v3"],
     [test |-> "hv3",  free |-> "hv3",  null |-> "hv3"],
     [test |-> "qdv",  free |-> "qdv",  null |-> "qdv"],
     [test |-> "qR2v", free |-> "qR2v", null |-> "qdv"] >>

\* agbnp3_free, agbnp3_utils.c:56-58, of the blocks bs
wd_free(F, bs) ==
  [F EXCEPT
     !.heap = [b \in WdBlocks(F.natoms) |->
                 IF b \in bs /\ F.heap[b] = "live" THEN "freed" ELSE F.heap[b]],
     !.nfree = [b \in WdBlocks(F.natoms) |->
                  IF b \in bs THEN F.nfree[b] + 1 ELSE F.nfree[b]],
     !.late = IF F.pass > 0 THEN F.late + Cardinality(bs) ELSE F.late]

\* the blocks statement s hands to free(): the block of the field, and
\* before it the rows of a table (libagbnp3.c:1260-1274)
wd_blocks(F, s) ==
  IF ~F.ptr[s.test] \/ ~F.ptr[s.free] THEN {}
  ELSE {Blk(s.free)} \cup
       (IF s.free \in WdTables
        THEN {Row(s.free, i) : i \in 0 .. (F.natoms - 1)} ELSE {})

\* agbnp3_delete, libagbnp3.c:475-476, and the call of a repeated teardown
WdDeleteEnter ==
  /\ fr.fn = "agbworkdata" /\ fr.at \in {"allocated", "deleted"}
  /\ fr.pass < MaxTeardowns
  /\ fr' = [fr EXCEPT !.at = "delete", !.step = 1]
  /\ UNCHANGED pipeframe

\* libagbnp3.c:1186-1359, one statement; free() of a block that is already
\* freed is undefined: the program goes on or is ended
WdDeleteStep ==
  /\ fr.fn = "agbworkdata" /\ fr.at = "delete"
  /\ fr.step <= Len(delete_agbworkdata)
  /\ LET s == delete_agbworkdata[fr.step]
         bs == wd_blocks(fr, s)
         F1 == wd_free(fr, bs)
         F2 == [F1 EXCEPT !.ptr[s.null] = IF fr.ptr[s.test] THEN FALSE ELSE @,
                          !.step = @ + 1]
     IN IF \E b \in bs : fr.heap[b] = "freed"
        THEN \E end \in {"delete", "crashed"} : fr' = [F2 EXCEPT !.at = end]
        ELSE fr' = F2
  /\ UNCHANGED pipeframe

\* libagbnp3.c:1361
WdDeleteReturn ==
  /\ fr.fn = "agbworkdata" /\ fr.at = "delete"
  /\ fr.step > Len(delete_agbworkdata)
  /\ fr' = [fr EXCEPT !.at = "deleted", !.pass = @ + 1, !.ret = AGBNP_OK]
  /\ UNCHANGED pipeframe

NextWd ==
  \/ WdAllocate \/ WdAllocateFail \/ WdWsat
  \/ WdDeleteEnter \/ WdDeleteStep \/ WdDeleteReturn

InitWd == InitIdle /\ fr \in WdFrames

SpecWd == InitWd /\ [][NextWd]_vars

\* C30: the teardown of a structure hands every block of its work data to
\* free() exactly once: no block twice, after the teardown no block is still
\* allocated and no field still holds an address, and a repeated teardown
\* frees nothing.
C30_ReleasedExactlyOnce ==
  fr.fn = "agbworkdata" =>
    /\ \A b \in WdBlocks(fr.natoms) : fr.nfree[b] <= 1
    /\ fr.at = "deleted" =>
         /\ \A b \in WdBlocks(fr.natoms) : fr.heap[b] # "live"
         /\ \A f \in WdFields : ~fr.ptr[f]
    /\ fr.late = 0

====
